---- MODULE Spec2Model ----
(***************************************************************************)
(* Norman hub integration: the notification transport.                     *)
(*                                                                         *)
(*   api.py          NormanApiClient.async_listen_notifications            *)
(*                   (one long-poll session: connect, read-vs-timer race,  *)
(*                   brace-depth framer, cleanup)                          *)
(*   coordinator.py  NormanCoordinator.listen_notifications                *)
(*                   (the reconnect loop around the sessions)              *)
(*                                                                         *)
(* A state of the model is a point where the listener task is suspended    *)
(* at an await, or stands between two characters of a chunk, or stands at  *)
(* the top of the reconnect loop.  The stream is a sequence of bytes and   *)
(* the decoded text a sequence of characters, both written as tokens:      *)
(*   "{" "}"   braces                                                      *)
(*   "P"       the member key  "PeripheralList":                           *)
(*   "A"       any other member key, e.g.  "Ack":                          *)
(*   "v"       the start of a scalar value, e.g. of a string               *)
(*   "m"       a character of that value encoded in two bytes; its bytes   *)
(*             are "m1" (lead) and "m2" (continuation)                     *)
(*   ","       the member separator                                        *)
(*   " "       whitespace                                                  *)
(*   "x"       a character no JSON text may hold at that place             *)
(* Every other token is one byte and one character.                        *)
(***************************************************************************)
EXTENDS Integers, Sequences, FiniteSets, TLC

(***************************************************************************)
(* Bounds of the model: the hub writes at most MaxPieces texts; the loop   *)
(* is followed through MaxSessions connection attempts when the hub        *)
(* writes at most MaxLoopPieces texts and through one attempt otherwise.   *)
(***************************************************************************)
MaxPieces == 2
MaxLoopPieces == 1
MaxSessions == 3

(***************************************************************************)
(* json.loads on the token text.                                           *)
(* A parsed value is [t |-> "scalar", n |-> its two-byte characters],       *)
(* [t |-> "obj", m |-> members] with members a function from keys to       *)
(* parsed values (a dict: a repeated key keeps its last value, whitespace  *)
(* is gone), or JsonFail for json.JSONDecodeError.                         *)
(***************************************************************************)
JsonFail == [t |-> "fail"]

JsonScalar(n) == [t |-> "scalar", n |-> n]

JsonObj(members) == [t |-> "obj", m |-> members]

EmptyMembers == [k \in {} |-> JsonFail]

KeyTokens == {"P", "A"}

RECURSIVE SkipWs(_, _)
SkipWs(s, i) ==
    IF i <= Len(s) /\ s[i] = " " THEN SkipWs(s, i + 1) ELSE i

\* the end of the run of "m" characters that starts at s[i]
RECURSIVE SkipValueChars(_, _)
SkipValueChars(s, i) ==
    IF i <= Len(s) /\ s[i] = "m" THEN SkipValueChars(s, i + 1) ELSE i

RECURSIVE ParseValue(_, _)
RECURSIVE ParseMembers(_, _, _)

\* the value starting at s[i]; next = 0 when the text is not JSON there
ParseValue(s, i) ==
    IF i > Len(s) THEN [next |-> 0, val |-> JsonFail]
    ELSE IF s[i] = "v" THEN
        LET j == SkipValueChars(s, i + 1) IN
        [next |-> j, val |-> JsonScalar(j - i - 1)]
    ELSE IF s[i] = "{" THEN
        LET j == SkipWs(s, i + 1) IN
        IF j <= Len(s) /\ s[j] = "}"
        THEN [next |-> j + 1, val |-> JsonObj(EmptyMembers)]
        ELSE ParseMembers(s, j, EmptyMembers)
    ELSE [next |-> 0, val |-> JsonFail]

\* the members of an object from the key at s[i] up to the closing brace
ParseMembers(s, i, acc) ==
    IF i > Len(s) \/ s[i] \notin KeyTokens THEN [next |-> 0, val |-> JsonFail]
    ELSE
        LET r == ParseValue(s, SkipWs(s, i + 1)) IN
        IF r.next = 0 THEN [next |-> 0, val |-> JsonFail]
        ELSE
            LET acc2 == (s[i] :> r.val) @@ acc
                k == SkipWs(s, r.next)
            IN  IF k > Len(s) THEN [next |-> 0, val |-> JsonFail]
                ELSE IF s[k] = "}" THEN [next |-> k + 1, val |-> JsonObj(acc2)]
                ELSE IF s[k] = "," THEN ParseMembers(s, SkipWs(s, k + 1), acc2)
                ELSE [next |-> 0, val |-> JsonFail]

JsonLoads(s) ==
    LET r == ParseValue(s, SkipWs(s, 1)) IN
    IF r.next = 0 THEN JsonFail
    ELSE IF SkipWs(s, r.next) = Len(s) + 1 THEN r.val
    ELSE JsonFail

\* every parsed object is taken for a notification
IsNotificationAnyObject(obj) == obj.t = "obj"

\* "PeripheralList" in obj
IsNotification(obj) == obj.t = "obj" /\ "P" \in DOMAIN obj.m

\* characters outside any object are kept as well
KeepsCharAlways(d) == d >= 0

\* "elif depth > 0": a character that is no brace is kept inside an object
KeepsChar(d) == d > 0

\* the buffer is cleared on the successful path only
BufferAfterParseErrorKept(b) == b

\* "buffer = ''" after the try statement, reached after a JSONDecodeError
BufferAfterParseError(b) == <<>>

(***************************************************************************)
(* chunk.decode(errors="ignore") of one chunk: a lead byte with its        *)
(* continuation byte is one character; a lead byte without continuation    *)
(* (the chunk ends there) and a continuation byte without lead (the chunk  *)
(* starts there) are dropped.  Each character comes with the position in   *)
(* the stream of its last byte, base being the bytes before the chunk.     *)
(***************************************************************************)
RECURSIVE DecodeFrom(_, _, _)
DecodeFrom(b, i, base) ==
    IF i > Len(b) THEN <<>>
    ELSE IF b[i] = "m1" THEN
        IF i < Len(b) /\ b[i + 1] = "m2"
        THEN <<[c |-> "m", at |-> base + i + 1]>> \o DecodeFrom(b, i + 2, base)
        ELSE DecodeFrom(b, i + 1, base)
    ELSE IF b[i] = "m2" THEN DecodeFrom(b, i + 1, base)
    ELSE <<[c |-> b[i], at |-> base + i]>> \o DecodeFrom(b, i + 1, base)

Decode(b) == LET d == DecodeFrom(b, 1, 0) IN [i \in 1..Len(d) |-> d[i].c]

(***************************************************************************)
(* The framer: what the body of "for char in text" does with one           *)
(* character.  parsed says that json.loads ran, event says that the        *)
(* object is yielded; on a yield the buffer is cleared only when the       *)
(* generator is resumed, on every other path at once.                      *)
(***************************************************************************)
FramerStep(buf, d, ch) ==
    IF ch = "{" THEN
        [buffer |-> Append(buf, ch), depth |-> d + 1,
         parsed |-> FALSE, obj |-> JsonFail, event |-> FALSE]
    ELSE IF ch = "}" THEN
        LET b2 == Append(buf, ch)
            d2 == d - 1
            obj == JsonLoads(b2)
        IN  IF d2 # 0 THEN
                [buffer |-> b2, depth |-> d2,
                 parsed |-> FALSE, obj |-> JsonFail, event |-> FALSE]
            ELSE IF obj = JsonFail THEN
                [buffer |-> BufferAfterParseError(b2), depth |-> d2,
                 parsed |-> TRUE, obj |-> obj, event |-> FALSE]
            ELSE IF IsNotification(obj) THEN
                [buffer |-> b2, depth |-> d2,
                 parsed |-> TRUE, obj |-> obj, event |-> TRUE]
            ELSE
                [buffer |-> <<>>, depth |-> d2,
                 parsed |-> TRUE, obj |-> obj, event |-> FALSE]
    ELSE IF KeepsChar(d) THEN
        [buffer |-> Append(buf, ch), depth |-> d,
         parsed |-> FALSE, obj |-> JsonFail, event |-> FALSE]
    ELSE
        [buffer |-> buf, depth |-> d,
         parsed |-> FALSE, obj |-> JsonFail, event |-> FALSE]

(***************************************************************************)
(* What the hub writes: a sequence of byte texts from a small library.     *)
(***************************************************************************)
NotificationText == <<"{", "P", "v", "m1", "m2", "}">>

AckText == <<"{", "A", "v", "}">>

NestedNotificationText == <<"{", "P", "{", "}", "}">>

WhitespaceText == <<" ">>

CorruptText == <<"{", "x", "}">>

StrayCloseText == <<"{", "x", "}", "}">>

WellFormedPieces ==
    {NotificationText, AckText, NestedNotificationText, WhitespaceText}

BalancedPieces == WellFormedPieces \cup {CorruptText}

Pieces == BalancedPieces \cup {StrayCloseText}

PieceSeqs == UNION {[1..n -> Pieces] : n \in 0..MaxPieces}

RECURSIVE Flatten(_)
Flatten(ps) ==
    IF ps = <<>> THEN <<>> ELSE Head(ps) \o Flatten(Tail(ps))

(***************************************************************************)
(* Python values of the hub's JSON answers.  A dict is a function from its *)
(* keys; None, an int and a str are records of different shapes.           *)
(***************************************************************************)
PyNone == [t |-> "None"]

PyInt(n) == [t |-> "int", n |-> n]

PyStr(chars) == [t |-> "str", s |-> chars]

EmptyDict == [k \in {} |-> PyNone]

\* a devices dict without keys
EmptyDevices == [k \in {} |-> 0]

\* dict.get(key, default)
Get(d, key, default) == IF key \in DOMAIN d THEN d[key] ELSE default

(***************************************************************************)
(* State of the notification listener.                                     *)
(***************************************************************************)
VARIABLES
    pieces,          \* hub: the texts it writes, in order
    stream,          \* hub: their concatenation
    rd,              \* hub: bytes of the stream handed out by reads
    pc,              \* listen_notifications: where the loop stands
    gen,             \* async_listen_notifications: where the generator stands
    notif_response,  \* self._notif_response: "none", "open", "closed"
    reconnect_task,  \* the duration timer task
    read_task,       \* the task of the current response.content.read
    chunk,           \* result of the current read, <<>> until it completes
    text,            \* the decoded chunk
    ci,              \* index in text of the next character to frame
    buffer,          \* framer text buffer
    depth,           \* framer brace depth
    exc,             \* what leaves the generator once its finally is done
    cancel,          \* the owner's task.cancel(): "none", "delivered", "swallowed"
    sessions,        \* connection attempts made so far
    lastEnd,         \* how the last finished session ended
    events,          \* what the loop did since then, up to the first delivery
    fed,             \* characters given to the framer by this session
    yielded,         \* objects this session delivered, with text and place
    failedAt,        \* stream positions where json.loads raised in it
    split,           \* a chunk of this session ended inside an object
    cutChar,         \* a chunk of this session ended inside a character
    last_update_success  \* coordinator: the last refresh gave a snapshot

(***************************************************************************)
(* State of the coordinator's refreshes (_async_update_data, _process_data)*)
(* and of the hub's answers to them.                                       *)
(***************************************************************************)
VARIABLES
    device_info,     \* self._device_info: the cached catalog response
    thing_name,      \* self._thing_name is set
    coordinator_data, \* coordinator.data: place in maps of the published dict, 0 for None
    recs,            \* heap of NormanPeripheralData objects
    maps,            \* heap of devices dicts: device ID -> place in recs
    phase,           \* entry setup: "setup", "running" or "not_ready"
    has_entities,    \* cover entities were created at setup
    rpc,             \* per caller: where its _async_update_data stands
    result,          \* per caller: how its last _async_update_data ended
    refreshes,       \* refreshes started so far
    held,            \* a reader: place in maps of the dict it took, 0 for none
    held_view,       \* a reader: what it saw in that dict when it took it
    at_start,        \* per caller: the cached catalog and the published dict
                     \* when its refresh started
    fetches,         \* per caller: the catalog and status requests its
                     \* refresh has sent
    catalog_fetched, \* a catalog request has been answered without error
    catalog_in,      \* _process_data alone: its device_info argument
    status_in,       \* _process_data alone: its status_data argument
    merged,          \* _process_data alone: the dict it returned
    merge_done,      \* _process_data alone: it has returned
    merge_error      \* _process_data alone: the exception that left it

(***************************************************************************)
(* State of the config flow and of the entry setup, and of one cover       *)
(* entity.                                                                 *)
(***************************************************************************)
VARIABLES
    clients,         \* the NormanApiClient objects made so far: who made
                     \* each and whether async_close was called on it
    config_entries,  \* hosts that have a config entry
    flow,            \* the config flow: its step and the locals of the
                     \* running async_step_user
    setup,           \* async_setup_entry: where it stands, its client,
                     \* what it raised
    attrs,           \* the entity's _attr_extra_state_attributes
    cover_device,    \* coordinator.data.get(self._device_id)
    sent,            \* the async_set_position calls the entity made
    cover_error      \* the exception that left the entity's last call

listenerVars == <<pieces, stream, rd, pc, gen, notif_response,
                  reconnect_task, read_task, chunk, text, ci, buffer, depth,
                  exc, cancel, sessions, lastEnd, events, fed, yielded,
                  failedAt, split, cutChar>>

vars == <<listenerVars, last_update_success>>

mergeVars == <<catalog_in, status_in, merged, merge_done, merge_error>>

refreshVars == <<device_info, thing_name, coordinator_data, recs, maps, phase,
                 has_entities, rpc, result, refreshes, held, held_view,
                 at_start, fetches, catalog_fetched>>

entryVars == <<clients, config_entries, flow, setup>>

coverVars == <<attrs, cover_device, sent, cover_error>>

dataVars == <<refreshVars, mergeVars, entryVars, coverVars>>

allVars == <<vars, dataVars>>

hubVars == <<pieces, stream>>

framerVars == <<chunk, text, ci, buffer, depth>>

ghostFramer == <<fed, yielded, failedAt, split, cutChar>>

loopVars == <<pc, lastEnd, events>>

taskVars == <<reconnect_task, read_task>>

Range(f) == {f[i] : i \in DOMAIN f}

\* the events log stops at the first delivery of a session
Log(log, e) == IF "deliver" \in Range(log) THEN log ELSE Append(log, e)

(***************************************************************************)
(* coordinator.py: listen_notifications                                    *)
(***************************************************************************)
\* "except asyncio.CancelledError: ... return"
OnCancelled == "returned"

\* a periodic reconnect falls through to the backoff
LoopAfterPeriodicBacksOff(outcome) ==
    CASE outcome = "Cancelled" -> OnCancelled
      [] outcome = "Periodic" -> "sleep"
      [] outcome = "ConnectionFailed" -> "sleep"
      [] outcome = "EOF" -> "sleep"

\* a connection failure retries at once
LoopAfterFailureRetriesAtOnce(outcome) ==
    CASE outcome = "Cancelled" -> OnCancelled
      [] outcome = "Periodic" -> "connect"
      [] outcome = "ConnectionFailed" -> "connect"
      [] outcome = "EOF" -> "sleep"

\* the end of the stream retries at once
LoopAfterEofRetriesAtOnce(outcome) ==
    CASE outcome = "Cancelled" -> OnCancelled
      [] outcome = "Periodic" -> "connect"
      [] outcome = "ConnectionFailed" -> "sleep"
      [] outcome = "EOF" -> "connect"

\* where the loop goes when the "async for" is left
LoopAfter(outcome) ==
    CASE outcome = "Cancelled" -> OnCancelled
      [] outcome = "Periodic" -> "connect"
      [] outcome = "ConnectionFailed" -> "sleep"
      [] outcome = "EOF" -> "sleep"

\* the loop leaves the session after the refresh for one object
AfterNotificationRefreshReconnects == "connect"

\* after the "await self.async_refresh()" of the loop body: the "async for"
\* asks the same generator for its next object
AfterNotificationRefresh == "anext"

\* the loop reconnects right after the sleep
AfterSleepNoRefresh == "connect"

\* after "await asyncio.sleep(RECONNECT_INTERVAL)"
AfterSleep == "refresh_reconnect"

\* the loop gives up after the reconnect refresh
AfterReconnectRefreshReturns == "returned"

\* after the "await self.async_refresh()" that follows the sleep
AfterReconnectRefresh == "connect"

(***************************************************************************)
(* api.py: async_listen_notifications                                      *)
(***************************************************************************)
\* the end of the stream is reported as a connection failure
TranslateEofAsFailure(e) ==
    CASE e = "ClientError" -> "ConnectionFailed"
      [] e = "CancelledError" -> "Cancelled"
      [] e = "EOF" -> "ConnectionFailed"
      [] OTHER -> e

\* the except clauses of the generator
Translate(e) ==
    CASE e = "ClientError" -> "ConnectionFailed"
      [] e = "CancelledError" -> "Cancelled"
      [] OTHER -> e

\* the read is looked at before the timer
RaceResultReadFirst(timer, read, data) ==
    IF read = "failed" THEN "ClientError"
    ELSE IF timer = "done" THEN "Periodic"
    ELSE IF data = <<>> THEN "EOF"
    ELSE "chunk"

\* the race after "await asyncio.wait(...)": timer first, then the read
RaceResult(timer, read, data) ==
    IF timer = "done" THEN "Periodic"
    ELSE IF read = "failed" THEN "ClientError"
    ELSE IF data = <<>> THEN "EOF"
    ELSE "chunk"

\* the framer goes on from where the last session left it
FramerCarriedOver(buf, d) == [buffer |-> buf, depth |-> d]

\* 'buffer: str = ""' and "depth = 0" when the connection has opened
FramerAtSessionStart(buf, d) == [buffer |-> <<>>, depth |-> 0]

\* task.cancel() on a helper task
CancelTask(t) == IF t = "pending" THEN "cancelling" ELSE t

\* the generator is finished: the loop handles the outcome at once
GeneratorEnds(outcome) ==
    IF outcome = "GeneratorExit" THEN UNCHANGED loopVars
    ELSE /\ lastEnd' = outcome
         /\ pc' = LoopAfter(outcome)
         /\ events' = IF LoopAfter(outcome) = "sleep" THEN <<"sleep">> ELSE <<>>

\* the finally block, entered with exception e in flight ("EOF": none);
\* the chunk in hand is dropped with it
Finally(e, readNow) ==
    LET rc2 == CancelTask(reconnect_task)
        rd2 == CancelTask(readNow)
    IN  /\ notif_response' =
              IF notif_response = "open" THEN "closed" ELSE notif_response
        /\ chunk' = <<>>
        /\ text' = <<>>
        /\ ci' = 1
        /\ reconnect_task' = rc2
        /\ read_task' = rd2
        /\ IF rc2 = "cancelling" \/ rd2 = "cancelling"
           THEN /\ gen' = "cleanup"
                /\ exc' = Translate(e)
                /\ UNCHANGED loopVars
           ELSE /\ gen' = "closed"
                /\ exc' = "none"
                /\ GeneratorEnds(Translate(e))

\* the top of "while True" in the generator: start the next read
NextRead ==
    /\ read_task' = "pending"
    /\ chunk' = <<>>
    /\ text' = <<>>
    /\ ci' = 1
    /\ gen' = "waiting"

\* the connection attempts followed for the stream at hand
SessionBound == IF Len(pieces) <= MaxLoopPieces THEN MaxSessions ELSE 1

\* the listener before its first connection attempt, for the texts ps
ListenerStart(ps) ==
    /\ pieces = ps
    /\ stream = Flatten(ps)
    /\ rd = 0
    /\ pc = "connect"
    /\ gen = "none"
    /\ notif_response = "none"
    /\ reconnect_task = "none"
    /\ read_task = "none"
    /\ chunk = <<>>
    /\ text = <<>>
    /\ ci = 1
    /\ buffer = <<>>
    /\ depth = 0
    /\ exc = "none"
    /\ cancel = "none"
    /\ sessions = 0
    /\ lastEnd = "none"
    /\ events = <<>>
    /\ fed = <<>>
    /\ yielded = <<>>
    /\ failedAt = {}
    /\ split = FALSE
    /\ cutChar = FALSE

\* the callers of a refresh: entry setup (async_config_entry_first_refresh),
\* the notification listener (async_refresh) and a cover entity's command
\* (async_request_refresh)
Callers == {"setup", "listener", "entity"}

\* the coordinator object as __init__ leaves it
CoordinatorNew ==
    /\ last_update_success = TRUE
    /\ device_info = EmptyDict
    /\ coordinator_data = 0
    /\ recs = <<>>
    /\ maps = <<>>
    /\ phase = "setup"
    /\ has_entities = FALSE
    /\ rpc = [p \in Callers |-> "idle"]
    /\ result = [p \in Callers |-> "none"]
    /\ refreshes = 0
    /\ held = 0
    /\ held_view = EmptyDevices
    /\ at_start = [p \in Callers |-> [info |-> EmptyDict, data |-> 0]]
    /\ fetches = [p \in Callers |-> [catalog |-> 0, status |-> 0]]
    /\ catalog_fetched = FALSE

\* no refresh is followed in this coordinator object
RefreshIdle ==
    /\ CoordinatorNew
    /\ thing_name = TRUE

\* _process_data is not followed on its own
MergeIdle ==
    /\ catalog_in = EmptyDict
    /\ status_in = EmptyDict
    /\ merged = EmptyDevices
    /\ merge_done = FALSE
    /\ merge_error = "none"

\* no flow result yet
NoResult == [type |-> "none"]

\* no config flow, no entry and no setup yet
EntryIdle ==
    /\ clients = <<>>
    /\ config_entries = {}
    /\ flow = [pc |-> "none", result |-> NoResult, errors |-> EmptyDict,
               user_input |-> EmptyDict, api |-> 0, pending |-> NoResult,
               caught |-> "none", submissions |-> 0]
    /\ setup = [pc |-> "idle", host |-> "", api |-> 0, raised |-> "none"]

\* no cover entity is followed
CoverIdle ==
    /\ attrs = EmptyDict
    /\ cover_device = PyNone
    /\ sent = <<>>
    /\ cover_error = "none"

Init ==
    /\ \E ps \in PieceSeqs : ListenerStart(ps)
    /\ RefreshIdle
    /\ MergeIdle
    /\ EntryIdle
    /\ CoverIdle

\* line 42 of the loop: a new generator, advanced to its session.post
Connect ==
    /\ pc = "connect"
    /\ sessions < SessionBound
    /\ sessions' = sessions + 1
    /\ pc' = "anext"
    /\ gen' = "connecting"
    /\ reconnect_task' = "none"
    /\ read_task' = "none"
    /\ exc' = "none"
    /\ events' = Log(events, "connect")
    /\ fed' = <<>>
    /\ yielded' = <<>>
    /\ failedAt' = {}
    /\ split' = FALSE
    /\ cutChar' = FALSE
    /\ UNCHANGED <<hubVars, rd, notif_response, framerVars, cancel, lastEnd>>
    /\ UNCHANGED <<last_update_success, dataVars>>

\* the POST answers: framer reset, timer and first read started
ConnectOk ==
    /\ gen = "connecting"
    /\ notif_response' = "open"
    /\ buffer' = FramerAtSessionStart(buffer, depth).buffer
    /\ depth' = FramerAtSessionStart(buffer, depth).depth
    /\ reconnect_task' = "pending"
    /\ NextRead
    /\ UNCHANGED <<hubVars, rd, loopVars, exc, cancel, sessions, ghostFramer>>
    /\ UNCHANGED <<last_update_success, dataVars>>

\* the POST raises ClientError (refused, or raise_for_status after which
\* the "async with" releases the response)
ConnectFails ==
    /\ gen = "connecting"
    /\ \E released \in BOOLEAN :
          /\ notif_response' = IF released THEN "closed" ELSE notif_response
          /\ gen' = "closed"
          /\ exc' = "none"
          /\ GeneratorEnds(Translate("ClientError"))
    /\ UNCHANGED <<hubVars, rd, taskVars, framerVars, cancel, sessions,
                   ghostFramer>>
    /\ UNCHANGED <<last_update_success, dataVars>>

\* the pending read returns the next k bytes
ReadReturns ==
    /\ gen = "waiting"
    /\ read_task = "pending"
    /\ \E k \in 1..(Len(stream) - rd) :
          /\ chunk' = SubSeq(stream, rd + 1, rd + k)
          /\ rd' = rd + k
          /\ cutChar' = (cutChar \/ stream[rd + k] = "m1")
    /\ read_task' = "done"
    /\ UNCHANGED <<hubVars, loopVars, gen, notif_response, reconnect_task,
                   text, ci, buffer, depth, exc, cancel, sessions, fed,
                   yielded, failedAt, split>>
    /\ UNCHANGED <<last_update_success, dataVars>>

\* the hub closes the stream: the pending read returns b""
ReadEOF ==
    /\ gen = "waiting"
    /\ read_task = "pending"
    /\ chunk' = <<>>
    /\ read_task' = "done"
    /\ UNCHANGED <<hubVars, rd, loopVars, gen, notif_response, reconnect_task,
                   text, ci, buffer, depth, exc, cancel, sessions, ghostFramer>>
    /\ UNCHANGED <<last_update_success, dataVars>>

\* the pending read raises ClientError
ReadFails ==
    /\ gen = "waiting"
    /\ read_task = "pending"
    /\ read_task' = "failed"
    /\ UNCHANGED <<hubVars, rd, loopVars, gen, notif_response, reconnect_task,
                   framerVars, exc, cancel, sessions, ghostFramer>>
    /\ UNCHANGED <<last_update_success, dataVars>>

\* asyncio.sleep(NOTIF_MAX_DURATION) completes
TimerFires ==
    /\ reconnect_task = "pending"
    /\ gen \in {"waiting", "yielded"}
    /\ reconnect_task' = "done"
    /\ UNCHANGED <<hubVars, rd, loopVars, gen, notif_response, read_task,
                   framerVars, exc, cancel, sessions, ghostFramer>>
    /\ UNCHANGED <<last_update_success, dataVars>>

\* asyncio.wait returns and the race is evaluated
WaitReturns ==
    /\ gen = "waiting"
    /\ read_task \in {"done", "failed"} \/ reconnect_task = "done"
    /\ LET res == RaceResult(reconnect_task, read_task, chunk) IN
       IF res = "chunk"
       THEN /\ IF Decode(chunk) = <<>>
               THEN NextRead
               ELSE /\ text' = Decode(chunk)
                    /\ ci' = 1
                    /\ gen' = "framing"
                    /\ UNCHANGED <<read_task, chunk>>
            /\ UNCHANGED <<loopVars, notif_response, reconnect_task, exc>>
       ELSE Finally(res, IF res = "Periodic" THEN CancelTask(read_task)
                                             ELSE read_task)
    /\ UNCHANGED <<hubVars, rd, buffer, depth, cancel, sessions, ghostFramer>>
    /\ UNCHANGED <<last_update_success, dataVars>>

\* one character of the chunk goes through the framer
FeedChar ==
    /\ gen = "framing"
    /\ ci <= Len(text)
    /\ LET r == FramerStep(buffer, depth, text[ci])
           at == DecodeFrom(chunk, 1, rd - Len(chunk))[ci].at
       IN  /\ buffer' = r.buffer
           /\ depth' = r.depth
           /\ fed' = Append(fed, text[ci])
           /\ failedAt' = IF r.parsed /\ r.obj = JsonFail
                          THEN failedAt \cup {at} ELSE failedAt
           /\ split' = (split \/ (ci = Len(text) /\ r.depth > 0))
           /\ IF r.event
              THEN /\ yielded' = Append(yielded,
                          [obj |-> r.obj, text |-> r.buffer, at |-> at,
                           n |-> Len(fed) + 1, depth |-> r.depth,
                           last |-> text[ci]])
                   /\ gen' = "yielded"
                   /\ pc' = "refresh_notif"
                   /\ events' = Log(Log(events, "deliver"), "refresh")
                   /\ ci' = ci + 1
                   /\ UNCHANGED <<lastEnd, read_task, chunk, text>>
              ELSE /\ yielded' = yielded
                   /\ UNCHANGED loopVars
                   /\ IF ci = Len(text) THEN NextRead
                      ELSE /\ ci' = ci + 1
                           /\ UNCHANGED <<gen, read_task, chunk, text>>
    /\ UNCHANGED <<hubVars, rd, notif_response, reconnect_task, exc, cancel,
                   sessions, cutChar>>
    /\ UNCHANGED <<last_update_success, dataVars>>

\* the refresh for a notification is over: the loop asks for the next
\* object and the generator goes on after its yield
RefreshDone ==
    /\ pc = "refresh_notif"
    /\ pc' = AfterNotificationRefresh
    /\ IF AfterNotificationRefresh = "anext"
       THEN /\ buffer' = <<>>
            /\ IF ci > Len(text) THEN NextRead
               ELSE /\ gen' = "framing"
                    /\ UNCHANGED <<read_task, chunk, text, ci>>
       ELSE UNCHANGED <<buffer, gen, read_task, chunk, text, ci>>
    /\ UNCHANGED <<hubVars, rd, lastEnd, events, notif_response,
                   reconnect_task, depth, exc, cancel, sessions, ghostFramer>>
    /\ \E ok \in BOOLEAN : last_update_success' = ok
    /\ UNCHANGED dataVars

\* the cancelled helper tasks have finished: the finally block is done
CleanupDone ==
    /\ gen = "cleanup"
    /\ reconnect_task' =
          IF reconnect_task = "cancelling" THEN "cancelled" ELSE reconnect_task
    /\ read_task' = IF read_task = "cancelling" THEN "cancelled" ELSE read_task
    /\ gen' = "closed"
    /\ exc' = "none"
    /\ GeneratorEnds(exc)
    /\ UNCHANGED <<hubVars, rd, notif_response, framerVars, cancel, sessions,
                   ghostFramer>>
    /\ UNCHANGED <<last_update_success, dataVars>>

\* the backoff sleep is over: the reconnect refresh starts
SleepDone ==
    /\ pc = "sleep"
    /\ pc' = AfterSleep
    /\ events' = IF AfterSleep = "refresh_reconnect"
                 THEN Log(Log(events, "wake"), "refresh")
                 ELSE Log(events, "wake")
    /\ UNCHANGED <<hubVars, rd, gen, notif_response, taskVars, framerVars,
                   exc, cancel, sessions, lastEnd, ghostFramer>>
    /\ UNCHANGED <<last_update_success, dataVars>>

\* the reconnect refresh is over (async_refresh returns on failure too)
ReconnectRefreshDone ==
    /\ pc = "refresh_reconnect"
    /\ pc' = AfterReconnectRefresh
    /\ UNCHANGED <<hubVars, rd, gen, notif_response, taskVars, framerVars,
                   exc, cancel, sessions, lastEnd, events, ghostFramer>>
    /\ \E ok \in BOOLEAN : last_update_success' = ok
    /\ UNCHANGED dataVars

\* the loop task is over
LoopFinished == pc \in {"returned", "cancelled"}

\* the owner calls task.cancel() while the loop task is suspended at an
\* await; the CancelledError is raised at that await
Cancel ==
    /\ cancel = "none"
    /\ \/ /\ pc = "anext"
          /\ gen \in {"connecting", "waiting"}
          /\ cancel' = "delivered"
          /\ Finally("CancelledError", read_task)
       \/ /\ pc = "anext"
          /\ gen = "cleanup"
          \* "with contextlib.suppress(asyncio.CancelledError): await ..."
          /\ cancel' = "swallowed"
          /\ UNCHANGED <<loopVars, gen, notif_response, taskVars, exc, chunk,
                         text, ci>>
       \/ /\ pc = "refresh_notif"
          /\ cancel' = "delivered"
          /\ pc' = OnCancelled
          /\ lastEnd' = "Cancelled"
          /\ events' = <<>>
          /\ UNCHANGED <<gen, notif_response, taskVars, exc, chunk, text,
                         ci>>
       \/ /\ pc \in {"sleep", "refresh_reconnect"}
          /\ cancel' = "delivered"
          /\ pc' = OnCancelled
          /\ UNCHANGED <<lastEnd, events, gen, notif_response, taskVars, exc,
                         chunk, text, ci>>
    /\ UNCHANGED <<hubVars, rd, buffer, depth, sessions, ghostFramer>>
    /\ UNCHANGED <<last_update_success, dataVars>>

\* a generator left suspended at its yield is finalized by the event loop:
\* aclose() raises GeneratorExit at the yield and the finally block runs
AgenFinalize ==
    /\ gen = "yielded"
    /\ LoopFinished
    /\ Finally("GeneratorExit", read_task)
    /\ UNCHANGED <<hubVars, rd, buffer, depth, cancel, sessions, ghostFramer>>
    /\ UNCHANGED <<last_update_success, dataVars>>

Next ==
    \/ Connect
    \/ ConnectOk
    \/ ConnectFails
    \/ ReadReturns
    \/ ReadEOF
    \/ ReadFails
    \/ TimerFires
    \/ WaitReturns
    \/ FeedChar
    \/ RefreshDone
    \/ CleanupDone
    \/ SleepDone
    \/ ReconnectRefreshDone
    \/ Cancel
    \/ AgenFinalize

Spec == Init /\ [][Next]_allVars

\* sleeps, refreshes and the cleanup of helper tasks complete, and the loop
\* task runs when it is not suspended
FairSpec ==
    /\ Spec
    /\ WF_allVars(SleepDone)
    /\ WF_allVars(ReconnectRefreshDone)
    /\ WF_allVars(CleanupDone)
    /\ WF_allVars(Connect)

\* the duration timer fires when its time has passed, and asyncio.wait
\* returns when one of its tasks is complete
TimerFairSpec == Spec /\ WF_allVars(TimerFires) /\ WF_allVars(WaitReturns)

TypeOK ==
    /\ text \in {<<>>, Decode(chunk)}
    /\ pc \in {"connect", "anext", "refresh_notif", "sleep",
               "refresh_reconnect", "returned", "cancelled"}
    /\ gen \in {"none", "connecting", "waiting", "framing", "yielded",
                "cleanup", "closed"}
    /\ notif_response \in {"none", "open", "closed"}
    /\ reconnect_task \in {"none", "pending", "done", "cancelling", "cancelled"}
    /\ read_task \in {"none", "pending", "done", "failed", "cancelling",
                      "cancelled"}
    /\ exc \in {"none", "Periodic", "ConnectionFailed", "EOF", "Cancelled",
                "GeneratorExit"}
    /\ cancel \in {"none", "delivered", "swallowed"}
    /\ sessions \in 0..SessionBound
    /\ rd \in 0..Len(stream)
    /\ depth \in Int
    /\ last_update_success \in BOOLEAN

(***************************************************************************)
(* models.py and coordinator.py: _process_data.                            *)
(* Python objects have identity: recs is the heap of NormanPeripheralData  *)
(* objects, a devices dict maps a device ID to the place of its record in  *)
(* recs, and maps is the heap of devices dicts.                            *)
(***************************************************************************)
COVER_TYPE_SMARTDRAPE == "smartdrape"

PyFloat(whole, tenths) == [t |-> "float", w |-> whole, f |-> tenths]

PyList(items) == [t |-> "list", items |-> items]

\* the float json.loads gives for a number beyond the range of a double
PyInfinity == [t |-> "float", inf |-> TRUE]

DigitChars == {"0", "1", "2", "3", "4", "5", "6", "7", "8", "9"}

DigitValue(c) ==
    CASE c = "0" -> 0 [] c = "1" -> 1 [] c = "2" -> 2 [] c = "3" -> 3
      [] c = "4" -> 4 [] c = "5" -> 5 [] c = "6" -> 6 [] c = "7" -> 7
      [] c = "8" -> 8 [] c = "9" -> 9

DigitChar(n) ==
    CASE n = 0 -> "0" [] n = 1 -> "1" [] n = 2 -> "2" [] n = 3 -> "3"
      [] n = 4 -> "4" [] n = 5 -> "5" [] n = 6 -> "6" [] n = 7 -> "7"
      [] n = 8 -> "8" [] n = 9 -> "9"

RECURSIVE StripLeft(_)
StripLeft(s) == IF s # <<>> /\ Head(s) = " " THEN StripLeft(Tail(s)) ELSE s

RECURSIVE StripRight(_)
StripRight(s) ==
    IF s # <<>> /\ s[Len(s)] = " "
    THEN StripRight(SubSeq(s, 1, Len(s) - 1)) ELSE s

RECURSIVE DigitsValue(_, _)
DigitsValue(s, acc) ==
    IF s = <<>> THEN acc
    ELSE DigitsValue(Tail(s), 10 * acc + DigitValue(Head(s)))

\* int(text): surrounding whitespace and one sign are accepted
IntOfChars(chars) ==
    LET body == StripRight(StripLeft(chars))
        signed == body # <<>> /\ Head(body) \in {"-", "+"}
        digits == IF signed THEN Tail(body) ELSE body
    IN  IF digits # <<>> /\ \A i \in 1..Len(digits) : digits[i] \in DigitChars
        THEN [ok |-> TRUE,
              n |-> IF signed /\ Head(body) = "-"
                    THEN 0 - DigitsValue(digits, 0)
                    ELSE DigitsValue(digits, 0),
              raises |-> "none"]
        ELSE [ok |-> FALSE, n |-> 0, raises |-> "ValueError"]

\* int(raw): ok is FALSE when it raises; a float is truncated towards
\* zero, and an infinite one raises OverflowError
IntOf(raw) ==
    CASE raw.t = "int" -> [ok |-> TRUE, n |-> raw.n, raises |-> "none"]
      [] raw.t = "str" -> IntOfChars(raw.s)
      [] raw.t = "float" ->
            IF "inf" \in DOMAIN raw
            THEN [ok |-> FALSE, n |-> 0, raises |-> "OverflowError"]
            ELSE [ok |-> TRUE, n |-> raw.w, raises |-> "none"]
      [] OTHER -> [ok |-> FALSE, n |-> 0, raises |-> "TypeError"]

\* "except (TypeError, ValueError)"
Caught(e) == e \in {"TypeError", "ValueError"}

\* str(n) for an int
RECURSIVE NatChars(_)
NatChars(n) ==
    IF n < 10 THEN <<DigitChar(n)>>
    ELSE NatChars(n \div 10) \o <<DigitChar(n % 10)>>

IntChars(n) == IF n < 0 THEN <<"-">> \o NatChars(0 - n) ELSE NatChars(n)

\* f"Norman {peripheral_uid}"
SynthName(uid) == PyStr(<<"N", "o", "r", "m", "a", "n", " ">> \o IntChars(uid))

\* the dataclass constructor: the fields after module_detail default to None
NormanPeripheralData(id, name, type, room_id, room_name, group_id, group_name, module_type, module_detail) ==
    [id |-> id, name |-> name, type |-> type,
     room_id |-> room_id, room_name |-> room_name,
     group_id |-> group_id, group_name |-> group_name,
     module_type |-> module_type, module_detail |-> module_detail,
     bottom_rail_position |-> PyNone, middle_rail_position |-> PyNone,
     target_bottom_rail_position |-> PyNone,
     target_middle_rail_position |-> PyNone,
     battery_level |-> PyNone, firmware_version |-> PyNone,
     last_update |-> PyNone]

\* the minimal record is named by the bare number
MinimalRecordBareName(uid) ==
    NormanPeripheralData(uid, PyStr(IntChars(uid)), COVER_TYPE_SMARTDRAPE,
                         PyNone, PyNone, PyNone, PyNone, PyNone, PyNone)

\* NormanPeripheralData(id=..., name=f"Norman ...", type=...)
MinimalRecord(uid) ==
    NormanPeripheralData(uid, SynthName(uid), COVER_TYPE_SMARTDRAPE, PyNone,
                         PyNone, PyNone, PyNone, PyNone, PyNone)

\* the record of a catalog peripheral
CatalogRecord(uid, room, group, peripheral) ==
    NormanPeripheralData(uid,
        Get(peripheral, "PeripheralName", SynthName(uid)),
        COVER_TYPE_SMARTDRAPE,
        Get(room, "RoomID", PyNone), Get(room, "RoomName", PyStr(<<>>)),
        Get(group, "GroupID", PyNone), Get(group, "GroupName", PyStr(<<>>)),
        Get(peripheral, "ModuleType", PyNone),
        Get(peripheral, "ModuleDetail", PyNone))

\* a null or missing field of the entry keeps the value the record has
StatusOverlayWithFallback(device, peripheral) ==
    LET Keep(old, new) == IF new = PyNone THEN old ELSE new
    IN  [device EXCEPT
            !.bottom_rail_position =
                Keep(@, Get(peripheral, "BottomRailPosition", PyNone)),
            !.middle_rail_position =
                Keep(@, Get(peripheral, "MiddleRailPosition", PyNone)),
            !.target_bottom_rail_position =
                Keep(@, Get(peripheral, "TargetBottomRailPosition", PyNone)),
            !.target_middle_rail_position =
                Keep(@, Get(peripheral, "TargetMiddleRailPosition", PyNone)),
            !.battery_level =
                Keep(@, Get(peripheral, "BatteryVoltage", PyNone)),
            !.firmware_version =
                Keep(@, Get(peripheral, "FirmwareVersion", PyNone)),
            !.last_update = Keep(@, Get(peripheral, "Timestamp", PyNone))]

\* the seven assignments to the record of a status entry
StatusOverlay(device, peripheral) ==
    [device EXCEPT
        !.bottom_rail_position = Get(peripheral, "BottomRailPosition", PyNone),
        !.middle_rail_position = Get(peripheral, "MiddleRailPosition", PyNone),
        !.target_bottom_rail_position =
            Get(peripheral, "TargetBottomRailPosition", PyNone),
        !.target_middle_rail_position =
            Get(peripheral, "TargetMiddleRailPosition", PyNone),
        !.battery_level = Get(peripheral, "BatteryVoltage", PyNone),
        !.firmware_version = Get(peripheral, "FirmwareVersion", PyNone),
        !.last_update = Get(peripheral, "Timestamp", PyNone)]

\* devices[uid] = <a new record>
SetDevice(st, uid, record) ==
    [recs |-> Append(st.recs, record),
     devs |-> (uid :> (Len(st.recs) + 1)) @@ st.devs,
     err |-> st.err]

\* a bad ID ends the walk of its list
AfterBadUidBreaks(i, n) == n + 1

\* "continue": the walk goes on with the next entry of the list
AfterBadUid(i, n) == i + 1

\* "for peripheral in group.get("PeripheralList", [])"
RECURSIVE WalkPeripherals(_, _, _, _, _)
WalkPeripherals(st, room, group, plist, i) ==
    IF i > Len(plist) \/ st.err # "none" THEN st
    ELSE LET peripheral == plist[i]
             raw == Get(peripheral, "PeripheralUID", PyNone)
             uid == IntOf(raw)
         IN  IF raw = PyNone \/ (~uid.ok /\ Caught(uid.raises))
             THEN WalkPeripherals(st, room, group, plist,
                                  AfterBadUid(i, Len(plist)))
             ELSE IF ~uid.ok
             THEN [st EXCEPT !.err = uid.raises]
             ELSE WalkPeripherals(
                      SetDevice(st, uid.n,
                                CatalogRecord(uid.n, room, group, peripheral)),
                      room, group, plist, i + 1)

\* "for group in room.get("GroupList", [])"
RECURSIVE WalkGroups(_, _, _, _)
WalkGroups(st, room, glist, i) ==
    IF i > Len(glist) \/ st.err # "none" THEN st
    ELSE WalkGroups(
             WalkPeripherals(st, room, glist[i],
                             Get(glist[i], "PeripheralList", <<>>), 1),
             room, glist, i + 1)

\* "for room in room_list"
RECURSIVE WalkRooms(_, _, _)
WalkRooms(st, rlist, i) ==
    IF i > Len(rlist) \/ st.err # "none" THEN st
    ELSE WalkRooms(WalkGroups(st, rlist[i],
                              Get(rlist[i], "GroupList", <<>>), 1),
                   rlist, i + 1)

\* lines 111-147: the walk of the catalog
WalkCatalog(st, info) ==
    IF "results" \in DOMAIN info /\ "RoomList" \in DOMAIN info["results"]
    THEN WalkRooms(st, info["results"]["RoomList"], 1)
    ELSE st

\* "for peripheral in status_data["Peripherals"]"
RECURSIVE WalkStatusEntries(_, _, _)
WalkStatusEntries(st, slist, i) ==
    IF i > Len(slist) \/ st.err # "none" THEN st
    ELSE LET peripheral == slist[i]
             raw == Get(peripheral, "PeripheralUID", PyNone)
             uid == IntOf(raw)
         IN  IF raw = PyNone \/ (~uid.ok /\ Caught(uid.raises))
             THEN WalkStatusEntries(st, slist, AfterBadUid(i, Len(slist)))
             ELSE IF ~uid.ok
             THEN [st EXCEPT !.err = uid.raises]
             ELSE LET st1 == IF uid.n \in DOMAIN st.devs THEN st
                             ELSE SetDevice(st, uid.n, MinimalRecord(uid.n))
                      place == st1.devs[uid.n]
                  IN  WalkStatusEntries(
                          [st1 EXCEPT !.recs[place] =
                                          StatusOverlay(@, peripheral)],
                          slist, i + 1)

\* lines 150-180: the walk of the status list
WalkStatus(st, status) ==
    IF "Peripherals" \in DOMAIN status /\ st.err = "none"
    THEN WalkStatusEntries(st, status["Peripherals"], 1)
    ELSE st

\* the published dict is filled again
NewDevicesReusesPublished(heapMaps, published) ==
    IF published = 0 THEN Len(heapMaps) + 1 ELSE published

\* "devices: NormanDeviceData = {}": the place of a new dict in maps
NewDevices(heapMaps, published) == Len(heapMaps) + 1

\* _process_data on the heap: the heap afterwards and the place of the
\* returned dict
ProcessData(heapRecs, heapMaps, published, info, status) ==
    LET target == NewDevices(heapMaps, published)
        start == IF target <= Len(heapMaps) THEN heapMaps[target]
                 ELSE EmptyDevices
        st == WalkStatus(WalkCatalog([recs |-> heapRecs, devs |-> start,
                                      err |-> "none"],
                                     info), status)
    IN  [err |-> st.err,
         recs |-> st.recs,
         maps |-> IF target <= Len(heapMaps)
                  THEN [heapMaps EXCEPT ![target] = st.devs]
                  ELSE Append(heapMaps, st.devs),
         ref |-> target]

\* what a reader sees through the dict at a place of maps
Snapshot(heapRecs, heapMaps, ref) ==
    [k \in DOMAIN heapMaps[ref] |-> heapRecs[heapMaps[ref][k]]]

\* _process_data as a function of its two arguments
Merge(info, status) ==
    LET r == ProcessData(<<>>, <<>>, 0, info, status)
    IN  Snapshot(r.recs, r.maps, r.ref)

\* the exception that leaves _process_data, "none" when it returns
MergeRaises(info, status) == ProcessData(<<>>, <<>>, 0, info, status).err

(***************************************************************************)
(* The hub's answers that _process_data is followed on: a catalog is built *)
(* from at most MaxCatalog peripherals placed in rooms and groups, a       *)
(* status list has at most MaxStatus entries.                              *)
(***************************************************************************)
MaxCatalog == 2

MaxStatus == 2

CatalogItems ==
    {[PeripheralUID |-> PyInt(1), PeripheralName |-> PyStr(<<"B">>),
      ModuleType |-> PyInt(3), ModuleDetail |-> PyInt(7)],
     [PeripheralUID |-> PyStr(<<"1">>), PeripheralName |-> PyStr(<<"D">>)],
     [PeripheralUID |-> PyInt(2)],
     [PeripheralUID |-> PyStr(<<"x">>), PeripheralName |-> PyStr(<<"X">>)]}

Placements ==
    {[room |-> 1, group |-> 1], [room |-> 1, group |-> 2],
     [room |-> 2, group |-> 1]}

Placed ==
    {[room |-> pl.room, group |-> pl.group, peripheral |-> item] :
        pl \in Placements, item \in CatalogItems}

PlacedSeqs == UNION {[1..n -> Placed] : n \in 0..MaxCatalog}

RoomsUsed(placed) ==
    SelectSeq(<<1, 2>>,
              LAMBDA r : \E i \in 1..Len(placed) : placed[i].room = r)

GroupsUsed(placed, r) ==
    SelectSeq(<<1, 2>>,
              LAMBDA g : \E i \in 1..Len(placed) :
                            placed[i].room = r /\ placed[i].group = g)

PeripheralsAt(placed, r, g) ==
    LET sel == SelectSeq(placed, LAMBDA e : e.room = r /\ e.group = g)
    IN  [i \in 1..Len(sel) |-> sel[i].peripheral]

HubGroup(placed, r, g) ==
    [GroupID |-> PyInt(g), GroupName |-> PyStr(<<"G", DigitChar(g)>>),
     PeripheralList |-> PeripheralsAt(placed, r, g)]

HubRoom(placed, r) ==
    LET gs == GroupsUsed(placed, r)
    IN  [RoomID |-> PyInt(r), RoomName |-> PyStr(<<"R", DigitChar(r)>>),
         GroupList |-> [i \in 1..Len(gs) |-> HubGroup(placed, r, gs[i])]]

\* the GetAllPeripheral answer for the placed peripherals
HubCatalog(placed) ==
    LET rs == RoomsUsed(placed)
    IN  [status |-> [code |-> PyInt(0)],
         results |->
            [RoomList |-> [i \in 1..Len(rs) |-> HubRoom(placed, rs[i])]]]

\* answers of other shapes: no keys, no "results", no "RoomList", a room
\* without "GroupList", a group without "PeripheralList", a peripheral
\* without "PeripheralUID" and one whose "PeripheralUID" is null, a
\* peripheral whose "PeripheralUID" is a number beyond the range of a double
OddCatalogs ==
    {EmptyDict,
     [status |-> [code |-> PyInt(0)]],
     [results |-> EmptyDict],
     [results |-> [RoomList |-> <<[RoomID |-> PyInt(1)]>>]],
     [results |-> [RoomList |-> <<[GroupList |-> <<[GroupID |-> PyInt(1)]>>]>>]],
     [results |-> [RoomList |-> <<[RoomID |-> PyInt(1), GroupList |->
        <<[GroupID |-> PyInt(1), PeripheralList |->
            <<[PeripheralName |-> PyStr(<<"N">>)],
              [PeripheralUID |-> PyNone],
              [PeripheralUID |-> PyInt(2)]>>]>>]>>]],
     [results |-> [RoomList |-> <<[RoomID |-> PyInt(1), GroupList |->
        <<[GroupID |-> PyInt(1), PeripheralList |->
            <<[PeripheralUID |-> PyInt(2)],
              [PeripheralUID |-> PyInfinity]>>]>>]>>]]}

Catalogs == {HubCatalog(placed) : placed \in PlacedSeqs} \cup OddCatalogs

StatusItems ==
    {[PeripheralUID |-> PyInt(1), BottomRailPosition |-> PyInt(40),
      MiddleRailPosition |-> PyInt(10),
      TargetBottomRailPosition |-> PyInt(50),
      TargetMiddleRailPosition |-> PyInt(20),
      BatteryVoltage |-> PyFloat(3, 7), FirmwareVersion |-> PyStr(<<"f">>),
      Timestamp |-> PyStr(<<"t">>)],
     [PeripheralUID |-> PyStr(<<" ", "1">>), BottomRailPosition |-> PyNone,
      MiddleRailPosition |-> PyInt(60)],
     [PeripheralUID |-> PyInt(3), BottomRailPosition |-> PyInt(70),
      Timestamp |-> PyStr(<<"u">>)],
     [PeripheralUID |-> PyInt(3), BottomRailPosition |-> PyInt(5)],
     [BottomRailPosition |-> PyInt(9)]}

StatusSeqs == UNION {[1..n -> StatusItems] : n \in 0..MaxStatus}

\* answers of other shapes: no "Peripherals", entries whose ID is not a
\* number before one whose ID is the float 3.5, an entry whose ID is a
\* number beyond the range of a double
OddStatuses ==
    {[Error |-> PyInt(0)],
     [Peripherals |->
        <<[PeripheralUID |-> PyStr(<<"x">>), BottomRailPosition |-> PyInt(9)],
          [PeripheralUID |-> PyList(<<>>)],
          [PeripheralUID |-> PyFloat(3, 5), BottomRailPosition |-> PyInt(70)]>>],
     [Peripherals |->
        <<[PeripheralUID |-> PyInt(1), BottomRailPosition |-> PyInt(40)],
          [PeripheralUID |-> PyInfinity, BottomRailPosition |-> PyInt(9)]>>]}

Statuses ==
    {[Error |-> PyInt(0), Peripherals |-> entries] : entries \in StatusSeqs}
        \cup OddStatuses

(***************************************************************************)
(* _process_data followed on its own, for every catalog and status answer. *)
(***************************************************************************)
MergeInit ==
    /\ ListenerStart(<<>>)
    /\ RefreshIdle
    /\ catalog_in \in Catalogs
    /\ status_in \in Statuses
    /\ merged = EmptyDevices
    /\ merge_done = FALSE
    /\ merge_error = "none"
    /\ EntryIdle
    /\ CoverIdle

\* the call "self._process_data(self._device_info, status_data)"
ProcessDataCall ==
    /\ ~merge_done
    /\ merge_error = "none"
    /\ merge_error' = MergeRaises(catalog_in, status_in)
    /\ IF MergeRaises(catalog_in, status_in) = "none"
       THEN /\ merged' = Merge(catalog_in, status_in)
            /\ merge_done' = TRUE
       ELSE UNCHANGED <<merged, merge_done>>
    /\ UNCHANGED <<vars, last_update_success, refreshVars, catalog_in,
                   status_in, entryVars, coverVars>>

MergeNext == ProcessDataCall

MergeSpec == MergeInit /\ [][MergeNext]_allVars

(***************************************************************************)
(* The refreshes of one coordinator object.  The first one is awaited by   *)
(* the entry setup; afterwards the notification listener awaits            *)
(* async_refresh and a cover entity's command awaits                       *)
(* async_request_refresh, each running _async_update_data, which is        *)
(* suspended at the registration, catalog and status requests.             *)
(***************************************************************************)
MaxRefreshes == 3

\* the GetAllPeripheral answers of the hub: no keys, one peripheral, no
\* "results"
RefreshCatalogs ==
    {EmptyDict,
     HubCatalog(<<[room |-> 1, group |-> 1,
                   peripheral |-> [PeripheralUID |-> PyInt(1),
                                   PeripheralName |-> PyStr(<<"B">>)]]>>),
     [status |-> [code |-> PyInt(0)]]}

\* the status answers of the hub
RefreshStatuses ==
    {[Error |-> PyInt(0), Peripherals |-> <<>>],
     [Error |-> PyInt(0), Peripherals |->
        <<[PeripheralUID |-> PyInt(1), BottomRailPosition |-> PyInt(40)]>>],
     [Error |-> PyInt(0), Peripherals |->
        <<[PeripheralUID |-> PyInt(1), BottomRailPosition |-> PyInt(70)]>>]}

\* how a request fails: the transport, an error code in the answer, a body
\* that is not JSON
Failures == {"ClientError", "ErrorCode", "JSONDecodeError"}

\* what the API client raises for a failed request
ApiError(failure) ==
    CASE failure = "ClientError" -> "NormanConnectionError"
      [] failure = "ErrorCode" -> "NormanApiError"
      [] failure = "JSONDecodeError" -> "NormanApiError"

\* only the connection error is translated
UpdateErrorConnectionOnly(e) ==
    IF e = "NormanConnectionError" THEN "UpdateFailed" ELSE e

\* the except clauses of _async_update_data
UpdateError(e) ==
    CASE e = "NormanConnectionError" -> "UpdateFailed"
      [] e = "NormanApiError" -> "UpdateFailed"
      [] OTHER -> e

\* the catalog is fetched by every refresh
NeedsCatalogAlways(info) == TRUE

\* "if not self._device_info"
NeedsCatalog(info) == info = EmptyDict

\* "if not self._thing_name" in async_get_devices
NeedsRegistration(name) == ~name

\* the request _async_update_data awaits first
FirstAwait(info, name) ==
    IF NeedsCatalog(info)
    THEN IF NeedsRegistration(name) THEN "registration" ELSE "catalog"
    ELSE "status"

RefreshInit ==
    /\ ListenerStart(<<>>)
    /\ MergeIdle
    /\ CoordinatorNew
    /\ thing_name \in BOOLEAN
    /\ EntryIdle
    /\ CoverIdle

\* who may start a refresh: the setup once, the listener after the setup,
\* an entity when the setup created one
MayRefresh(p) ==
    CASE p = "setup" -> phase = "setup"
      [] p = "listener" -> phase = "running"
      [] p = "entity" -> phase = "running" /\ has_entities

\* _async_update_data is entered and runs up to its first await
RefreshStart(p) ==
    /\ refreshes < MaxRefreshes
    /\ rpc[p] = "idle"
    /\ MayRefresh(p)
    /\ refreshes' = refreshes + 1
    /\ result' = [result EXCEPT ![p] = "none"]
    /\ rpc' = [rpc EXCEPT ![p] = FirstAwait(device_info, thing_name)]
    /\ at_start' = [at_start EXCEPT ![p] = [info |-> device_info,
                                            data |-> coordinator_data]]
    /\ fetches' = [fetches EXCEPT ![p] =
            [catalog |-> IF FirstAwait(device_info, thing_name) = "catalog"
                         THEN 1 ELSE 0,
             status |-> IF FirstAwait(device_info, thing_name) = "status"
                        THEN 1 ELSE 0]]
    /\ UNCHANGED <<listenerVars, last_update_success, mergeVars, entryVars,
                   coverVars, device_info,
                   thing_name, coordinator_data, recs, maps, phase,
                   has_entities, held, held_view, catalog_fetched>>

\* the exception leaves _async_update_data; the refresh records the failure
RefreshFails(p, failure) ==
    /\ rpc' = [rpc EXCEPT ![p] = "idle"]
    /\ result' = [result EXCEPT ![p] = UpdateError(ApiError(failure))]
    /\ last_update_success' = FALSE
    /\ phase' = IF p = "setup" THEN "not_ready" ELSE phase
    /\ UNCHANGED <<listenerVars, mergeVars, entryVars, coverVars,
                   device_info, thing_name,
                   coordinator_data, recs, maps, has_entities, refreshes,
                   held, held_view, at_start, fetches, catalog_fetched>>

\* the registration request answers; the catalog request is sent
RegistrationReturns(p) ==
    /\ rpc[p] = "registration"
    /\ \E named \in BOOLEAN : thing_name' = named
    /\ rpc' = [rpc EXCEPT ![p] = "catalog"]
    /\ fetches' = [fetches EXCEPT ![p].catalog = @ + 1]
    /\ UNCHANGED <<listenerVars, last_update_success, mergeVars, entryVars,
                   coverVars, device_info,
                   coordinator_data, recs, maps, phase, has_entities,
                   result, refreshes, held, held_view, at_start,
                   catalog_fetched>>

RegistrationFails(p) ==
    /\ rpc[p] = "registration"
    /\ \E failure \in Failures : RefreshFails(p, failure)

\* "self._device_info = await self.api.async_get_devices()"; the status
\* request is sent
CatalogReturns(p) ==
    /\ rpc[p] = "catalog"
    /\ \E answer \in RefreshCatalogs : device_info' = answer
    /\ rpc' = [rpc EXCEPT ![p] = "status"]
    /\ fetches' = [fetches EXCEPT ![p].status = @ + 1]
    /\ catalog_fetched' = TRUE
    /\ UNCHANGED <<listenerVars, last_update_success, mergeVars, entryVars,
                   coverVars, thing_name,
                   coordinator_data, recs, maps, phase, has_entities,
                   result, refreshes, held, held_view, at_start>>

CatalogFails(p) ==
    /\ rpc[p] = "catalog"
    /\ \E failure \in Failures : RefreshFails(p, failure)

\* "status_data = await self.api.async_get_status()", the merge, and the
\* assignment of the returned dict to coordinator.data
StatusReturns(p) ==
    /\ rpc[p] = "status"
    /\ \E answer \in RefreshStatuses :
        LET r == ProcessData(recs, maps, coordinator_data, device_info,
                             answer)
        IN  /\ recs' = r.recs
            /\ maps' = r.maps
            /\ coordinator_data' = r.ref
            /\ IF p = "setup"
               THEN /\ phase' = "running"
                    /\ has_entities' = (DOMAIN r.maps[r.ref] # {})
               ELSE UNCHANGED <<phase, has_entities>>
    /\ rpc' = [rpc EXCEPT ![p] = "idle"]
    /\ result' = [result EXCEPT ![p] = "ok"]
    /\ last_update_success' = TRUE
    /\ UNCHANGED <<listenerVars, mergeVars, entryVars, coverVars,
                   device_info, thing_name, refreshes,
                   held, held_view, at_start, fetches, catalog_fetched>>

StatusFails(p) ==
    /\ rpc[p] = "status"
    /\ \E failure \in Failures : RefreshFails(p, failure)

\* a reader takes coordinator.data and looks at it
ReaderTakes ==
    /\ coordinator_data # 0
    /\ held # coordinator_data
    /\ held' = coordinator_data
    /\ held_view' = Snapshot(recs, maps, coordinator_data)
    /\ UNCHANGED <<listenerVars, last_update_success, mergeVars, entryVars,
                   coverVars, device_info,
                   thing_name, coordinator_data, recs, maps, phase,
                   has_entities, rpc, result, refreshes, at_start, fetches,
                   catalog_fetched>>

RefreshNext ==
    \/ \E p \in Callers : RefreshStart(p)
    \/ \E p \in Callers : RegistrationReturns(p)
    \/ \E p \in Callers : RegistrationFails(p)
    \/ \E p \in Callers : CatalogReturns(p)
    \/ \E p \in Callers : CatalogFails(p)
    \/ \E p \in Callers : StatusReturns(p)
    \/ \E p \in Callers : StatusFails(p)
    \/ ReaderTakes

RefreshSpec == RefreshInit /\ [][RefreshNext]_allVars

RefreshTypeOK ==
    /\ device_info \in RefreshCatalogs
    /\ thing_name \in BOOLEAN
    /\ coordinator_data \in 0..Len(maps)
    /\ phase \in {"setup", "running", "not_ready"}
    /\ rpc \in [Callers -> {"idle", "registration", "catalog", "status"}]
    /\ result \in [Callers -> {"none", "ok", "UpdateFailed"}]
    /\ refreshes \in 0..MaxRefreshes
    /\ held \in 0..Len(maps)
    /\ fetches \in [Callers -> [catalog : 0..1, status : 0..1]]
    /\ catalog_fetched \in BOOLEAN

(***************************************************************************)
(* Reference notions for the properties, taken from the texts the hub      *)
(* wrote and not from the framer.                                          *)
(***************************************************************************)
NotificationObj == JsonObj("P" :> JsonScalar(1))

NestedNotificationObj == JsonObj("P" :> JsonObj(EmptyMembers))

MarkedPieces == {NotificationText, NestedNotificationText}

ObjectOf(p) ==
    IF p = NotificationText THEN NotificationObj ELSE NestedNotificationObj

\* the marked objects of the stream, in the order written
ExpectedObjects ==
    LET marked == SelectSeq(pieces, LAMBDA p : p \in MarkedPieces)
    IN  [i \in 1..Len(marked) |-> ObjectOf(marked[i])]

YieldedObjects == [i \in 1..Len(yielded) |-> yielded[i].obj]

RECURSIVE PieceStart(_)
PieceStart(i) == IF i = 1 THEN 1 ELSE PieceStart(i - 1) + Len(pieces[i - 1])

PieceEnd(i) == PieceStart(i) + Len(pieces[i]) - 1

\* position of the brace that the closing brace at s[p] matches, 0 if none
RECURSIVE MatchOpenFrom(_, _, _)
MatchOpenFrom(s, i, open) ==
    IF i = 0 THEN 0
    ELSE IF s[i] = "}" THEN MatchOpenFrom(s, i - 1, open + 1)
    ELSE IF s[i] = "{" THEN
        IF open = 1 THEN i ELSE MatchOpenFrom(s, i - 1, open - 1)
    ELSE MatchOpenFrom(s, i - 1, open)

MatchOpen(s, p) == MatchOpenFrom(s, p - 1, 1)

\* the first session read the whole stream and saw the hub close it
FirstSessionComplete ==
    /\ sessions = 1
    /\ gen = "closed"
    /\ lastEnd = "EOF"
    /\ rd = Len(stream)

\* the events the loop logged before the first delivery include a refresh
RefreshBeforeDelivery ==
    \E i, j \in DOMAIN events :
        i < j /\ events[i] = "refresh" /\ events[j] = "deliver"

(***************************************************************************)
(* C1 as stated: when one session reads a stream of well-formed objects    *)
(* and whitespace up to the hub's close, the objects yielded are exactly   *)
(* the marked objects of the stream (the acknowledgements are left out),   *)
(* in the order written, whatever the chunks were.                         *)
(***************************************************************************)
C1_Orig_SameObjectsForEveryChunking ==
    (Range(pieces) \subseteq WellFormedPieces /\ FirstSessionComplete)
        => YieldedObjects = ExpectedObjects

(***************************************************************************)
(* C1 amended: the same, for the chunkings in which no chunk ends between  *)
(* the bytes of one character.                                             *)
(***************************************************************************)
C1_YieldsMarkedObjectsInOrder ==
    (Range(pieces) \subseteq WellFormedPieces /\ FirstSessionComplete
        /\ ~cutChar) => YieldedObjects = ExpectedObjects

C1_Witness ==
    /\ FirstSessionComplete
    /\ pieces = <<AckText, NotificationText>>
    /\ YieldedObjects = <<NotificationObj>>
    /\ split
    /\ ~cutChar

(***************************************************************************)
(* C2: every yielded object was yielded at a closing brace that brought    *)
(* the depth back to 0, and its text is the characters given to the        *)
(* framer from the matching opening brace through that closing brace.      *)
(***************************************************************************)
C2_YieldsWholeObjectsOnly ==
    \A i \in DOMAIN yielded :
        LET y == yielded[i] IN
        /\ y.last = "}"
        /\ fed[y.n] = "}"
        /\ y.depth = 0
        /\ MatchOpen(fed, y.n) > 0
        /\ y.text = SubSeq(fed, MatchOpen(fed, y.n), y.n)

C2_Witness ==
    /\ gen = "yielded"
    /\ pieces = <<WhitespaceText, NestedNotificationText>>
    /\ yielded[1].text = NestedNotificationText
    /\ Len(text) < Len(NestedNotificationText)

\* every marked object written after a failed parse has been yielded
LaterMarkedObjectsYielded ==
    \A i \in DOMAIN pieces :
        (pieces[i] \in MarkedPieces /\ \E f \in failedAt : f < PieceStart(i))
            => \E j \in DOMAIN yielded : yielded[j].at = PieceEnd(i)

C4_PeriodicReconnectsAtOnce ==
    lastEnd = "Periodic" =>
        /\ pc \notin {"sleep", "refresh_reconnect"}
        /\ events # <<>> => events[1] = "connect"

C4_Witness ==
    /\ lastEnd = "Periodic"
    /\ sessions = 2
    /\ gen = "connecting"
    /\ events = <<"connect">>

(***************************************************************************)
(* C5: after a session ended with ConnectionFailed the loop does, in       *)
(* this order, one sleep, which completes, one refresh, and only then      *)
(* the next connection attempt.                                            *)
(***************************************************************************)
BackoffOrder == <<"sleep", "wake", "refresh", "connect">>

C5_FailureSleepsThenRefreshesOnce ==
    lastEnd = "ConnectionFailed" =>
        /\ events # <<>>
        /\ \A i \in DOMAIN events : i <= 4 => events[i] = BackoffOrder[i]
        /\ pc = "sleep" => events = <<"sleep">>
        /\ pc = "refresh_reconnect" => events = <<"sleep", "wake", "refresh">>

C5_Witness ==
    /\ lastEnd = "ConnectionFailed"
    /\ sessions = 2
    /\ gen = "connecting"
    /\ events = BackoffOrder

(***************************************************************************)
(* C6 as stated: after every session end, PeriodicReconnect included, a    *)
(* refresh is triggered before the first object of the next session is     *)
(* delivered.                                                              *)
(***************************************************************************)
C6_Orig_RefreshAfterEveryReconnect ==
    (lastEnd \in {"Periodic", "ConnectionFailed", "EOF"}
        /\ "deliver" \in Range(events)) => RefreshBeforeDelivery

(***************************************************************************)
(* C6 amended: after a session end by a failure or by end-of-stream a      *)
(* refresh is triggered before the first object of the next session is     *)
(* delivered.                                                              *)
(***************************************************************************)
C6_RefreshAfterFailedSession ==
    (lastEnd \in {"ConnectionFailed", "EOF"} /\ "deliver" \in Range(events))
        => RefreshBeforeDelivery

C6_Witness ==
    /\ lastEnd = "ConnectionFailed"
    /\ sessions = 2
    /\ gen = "yielded"
    /\ events = <<"sleep", "wake", "refresh", "connect", "deliver">>

\* the loop starts a connection attempt, a sleep or a refresh in this step
StartsWork ==
    \/ sessions' > sessions
    \/ pc' = "sleep" /\ pc # "sleep"
    \/ pc' = "refresh_notif" /\ pc # "refresh_notif"
    \/ pc' = "refresh_reconnect" /\ pc # "refresh_reconnect"

(***************************************************************************)
(* C7 as stated: once the cancellation has been delivered at an await of   *)
(* the loop, the loop starts no connection attempt, sleep or refresh.      *)
(***************************************************************************)
C7_Orig_CancelEndsLoopForGood ==
    [][cancel # "none" => ~StartsWork]_vars

(***************************************************************************)
(* C8 as stated: a loop that ends after its cancellation ends with the     *)
(* outcome Cancelled, not with a normal return.                            *)
(***************************************************************************)
C8_Orig_CancellationPropagates ==
    (cancel = "delivered" /\ LoopFinished) => pc = "cancelled"

(***************************************************************************)
(* C9 as stated: once the caller has stopped consuming a session (the      *)
(* generator is finished or the loop is over) the response is closed and   *)
(* neither helper task is pending.                                         *)
(***************************************************************************)
C9_Orig_NothingOutlivesSession ==
    (gen = "closed" \/ LoopFinished) =>
        /\ notif_response # "open"
        /\ reconnect_task \notin {"pending", "cancelling"}
        /\ read_task \notin {"pending", "cancelling"}

(***************************************************************************)
(* C10: when the race is evaluated with the timer complete, the pending    *)
(* read is cancelled, the response is closed and the session is on its     *)
(* way out with PeriodicReconnect; when that session is over the loop      *)
(* has recorded PeriodicReconnect and stands at the next connection        *)
(* attempt, not in the backoff sleep.                                      *)
(***************************************************************************)
C10_TimerEndsSessionWithPeriodic ==
    [][ /\ (gen = "waiting" /\ reconnect_task = "done" /\ gen' # "waiting"
            /\ cancel' = cancel)
            => /\ read_task' # "pending"
               /\ notif_response' = "closed"
               /\ \/ gen' = "cleanup" /\ exc' = "Periodic"
                  \/ gen' = "closed" /\ lastEnd' = "Periodic"
                       /\ pc' = "connect"
        /\ (gen = "cleanup" /\ exc = "Periodic" /\ gen' # "cleanup")
            => (gen' = "closed" /\ lastEnd' = "Periodic" /\ pc' = "connect"
                /\ read_task' = "cancelled")
      ]_vars

C10_Witness ==
    /\ lastEnd = "Periodic"
    /\ pc = "connect"
    /\ gen = "closed"
    /\ read_task = "cancelled"
    /\ reconnect_task = "done"
    /\ notif_response = "closed"

(***************************************************************************)
(* C11: within one session every delivered object starts exactly one       *)
(* coordinator refresh, one object at a time in arrival order, and when    *)
(* that refresh is over the loop waits for the next object of the same     *)
(* generator on the same open connection: no connection attempt is made    *)
(* between two objects of one session.                                     *)
(***************************************************************************)
C11_EachObjectOneRefreshSameSession ==
    [][ /\ (Len(yielded') > Len(yielded)) =>
              /\ yielded' = Append(yielded, yielded'[Len(yielded')])
              /\ pc = "anext"
              /\ pc' = "refresh_notif"
        /\ (pc' = "refresh_notif" /\ pc # "refresh_notif") =>
              Len(yielded') = Len(yielded) + 1
        /\ (pc = "refresh_notif" /\ pc' # pc /\ cancel' = cancel) =>
              /\ pc' = "anext"
              /\ sessions' = sessions
              /\ yielded' = yielded
              /\ notif_response' = "open"
              /\ gen' \in {"framing", "waiting"}
      ]_vars

C11_Witness ==
    /\ Len(yielded) = 2
    /\ pc = "anext"
    /\ gen = "waiting"
    /\ sessions = 1

(***************************************************************************)
(* C12: the loop runs until it is cancelled.  It never finishes unless a   *)
(* cancellation was delivered to it, and after every session end           *)
(* (PeriodicReconnect, ConnectionFailed or end of stream), whatever the    *)
(* outcome of its refreshes, it makes a new connection attempt or is       *)
(* cancelled first (sleeps and refreshes complete: FairSpec; the model     *)
(* follows SessionBound attempts).                                         *)
(***************************************************************************)
SessionEnded ==
    /\ lastEnd \in {"Periodic", "ConnectionFailed", "EOF"}
    /\ pc \in {"connect", "sleep", "refresh_reconnect"}

C12_LoopRunsUntilCancelled ==
    /\ [](LoopFinished => cancel = "delivered")
    /\ [](SessionEnded /\ sessions < SessionBound
              => <>(pc = "anext" \/ cancel = "delivered"))

C12_Witness ==
    /\ sessions = 2
    /\ gen = "connecting"
    /\ lastEnd = "EOF"
    /\ events = <<"sleep", "wake", "refresh", "connect">>
    /\ ~last_update_success
    /\ cancel = "none"

(***************************************************************************)
(* C13: an empty chunk read ends the session normally: the generator       *)
(* finishes without ConnectionFailed and without PeriodicReconnect (also   *)
(* when text is still buffered), and it yields nothing for that text.      *)
(***************************************************************************)
EmptyChunkRead ==
    /\ gen = "waiting"
    /\ read_task = "done"
    /\ chunk = <<>>
    /\ reconnect_task # "done"
    /\ gen' # gen
    /\ cancel' = cancel

RoomListOf(info) ==
    IF "results" \in DOMAIN info /\ "RoomList" \in DOMAIN info["results"]
    THEN info["results"]["RoomList"] ELSE <<>>

GroupListOf(room) == Get(room, "GroupList", <<>>)

PeripheralListOf(group) == Get(group, "PeripheralList", <<>>)

\* the catalog's peripherals in the order of the answer
CatalogEntrySeq(info) ==
    LET rl == RoomListOf(info)
    IN  Flatten([r \in 1..Len(rl) |->
            LET gl == GroupListOf(rl[r])
            IN  Flatten([g \in 1..Len(gl) |-> PeripheralListOf(gl[g])])])

StatusEntrySeq(status) == Get(status, "Peripherals", <<>>)

HasId(p) ==
    LET raw == Get(p, "PeripheralUID", PyNone)
    IN  raw # PyNone /\ IntOf(raw).ok

IdOf(p) == IntOf(Get(p, "PeripheralUID", PyNone)).n

IdsIn(entries) ==
    {IdOf(entries[i]) : i \in {j \in 1..Len(entries) : HasId(entries[j])}}

\* no two entries of the list have the same device ID
UniqueIds(entries) ==
    \A i, j \in 1..Len(entries) :
        (i # j /\ HasId(entries[i]) /\ HasId(entries[j]))
            => IdOf(entries[i]) # IdOf(entries[j])

Perms(q) == {[i \in 1..Len(q) |-> q[f[i]]] : f \in Permutations(1..Len(q))}

\* the lists that hold, in any order, one reordering of every element of q
ReorderEach(q, R(_)) ==
    UNION {Perms(u) :
           u \in {v \in [1..Len(q) -> UNION {R(q[i]) : i \in 1..Len(q)}] :
                     \A i \in 1..Len(q) : v[i] \in R(q[i])}}

ReorderedGroups(group) ==
    IF "PeripheralList" \in DOMAIN group
    THEN {[group EXCEPT !["PeripheralList"] = pl] :
             pl \in Perms(group["PeripheralList"])}
    ELSE {group}

ReorderedRooms(room) ==
    IF "GroupList" \in DOMAIN room
    THEN {[room EXCEPT !["GroupList"] = gl] :
             gl \in ReorderEach(room["GroupList"], ReorderedGroups)}
    ELSE {room}

ReorderedCatalogs(info) ==
    IF "results" \in DOMAIN info /\ "RoomList" \in DOMAIN info["results"]
    THEN {[info EXCEPT !["results"]["RoomList"] = rl] :
             rl \in ReorderEach(info["results"]["RoomList"], ReorderedRooms)}
    ELSE {info}

ReorderedStatuses(status) ==
    IF "Peripherals" \in DOMAIN status
    THEN {[status EXCEPT !["Peripherals"] = sl] :
             sl \in Perms(status["Peripherals"])}
    ELSE {status}

\* the record of a device the catalog does not have, for status entry e
ExpectedStatusOnly(k, e) ==
    [id |-> k,
     name |-> PyStr(<<"N", "o", "r", "m", "a", "n", " ">> \o IntChars(k)),
     type |-> "smartdrape",
     room_id |-> PyNone, room_name |-> PyNone,
     group_id |-> PyNone, group_name |-> PyNone,
     module_type |-> PyNone, module_detail |-> PyNone,
     bottom_rail_position |-> Get(e, "BottomRailPosition", PyNone),
     middle_rail_position |-> Get(e, "MiddleRailPosition", PyNone),
     target_bottom_rail_position |-> Get(e, "TargetBottomRailPosition", PyNone),
     target_middle_rail_position |-> Get(e, "TargetMiddleRailPosition", PyNone),
     battery_level |-> Get(e, "BatteryVoltage", PyNone),
     firmware_version |-> Get(e, "FirmwareVersion", PyNone),
     last_update |-> Get(e, "Timestamp", PyNone)]

(***************************************************************************)
(* C18: for every catalog and status answer, the keys of the merged        *)
(* snapshot are exactly the device IDs that int() accepts in the catalog's *)
(* peripherals or in the status entries, each once (the snapshot is a      *)
(* dict), and the record under key k has id = k.                           *)
(***************************************************************************)
C18_KeysAreTheParsedIds ==
    merge_done =>
        /\ DOMAIN merged = IdsIn(CatalogEntrySeq(catalog_in))
                               \cup IdsIn(StatusEntrySeq(status_in))
        /\ \A k \in DOMAIN merged : merged[k].id = k

C18_Witness ==
    /\ merge_done
    /\ DOMAIN merged = {1, 2, 3}
    /\ \E i \in 1..Len(CatalogEntrySeq(catalog_in)) :
          ~HasId(CatalogEntrySeq(catalog_in)[i])
    /\ IdsIn(StatusEntrySeq(status_in)) = {1, 3}

(***************************************************************************)
(* C19: when no two peripherals of the catalog and no two entries of the   *)
(* status list have the same device ID, the merged snapshot is the same    *)
(* for every order of the rooms, of the groups of a room, of the           *)
(* peripherals of a group and of the status entries.                       *)
(***************************************************************************)
C19_OrderIndependent ==
    (/\ merge_done
     /\ UniqueIds(CatalogEntrySeq(catalog_in))
     /\ UniqueIds(StatusEntrySeq(status_in)))
        => \A c \in ReorderedCatalogs(catalog_in) :
              \A st \in ReorderedStatuses(status_in) : Merge(c, st) = merged

C19_Witness ==
    /\ merge_done
    /\ UniqueIds(CatalogEntrySeq(catalog_in))
    /\ UniqueIds(StatusEntrySeq(status_in))
    /\ Len(RoomListOf(catalog_in)) = 2
    /\ Cardinality(IdsIn(CatalogEntrySeq(catalog_in))) = 2
    /\ Cardinality(IdsIn(StatusEntrySeq(status_in))) = 2
    /\ Cardinality(ReorderedCatalogs(catalog_in)) = 2
    /\ Cardinality(ReorderedStatuses(status_in)) = 2

(***************************************************************************)
(* C20 as stated: every status entry whose ID the catalog does not have    *)
(* gives a minimal record (that ID, the synthesized name, the default      *)
(* type, no room, group or module data) that carries the position,         *)
(* target, battery, firmware and timestamp fields of that entry.           *)
(***************************************************************************)
C20_Orig_EveryStatusOnlyEntryKeepsItsFields ==
    merge_done =>
        \A i \in 1..Len(StatusEntrySeq(status_in)) :
            LET e == StatusEntrySeq(status_in)[i]
            IN  (HasId(e) /\ IdOf(e) \notin IdsIn(CatalogEntrySeq(catalog_in)))
                    => /\ IdOf(e) \in DOMAIN merged
                       /\ merged[IdOf(e)] = ExpectedStatusOnly(IdOf(e), e)

(***************************************************************************)
(* C20 amended: a device ID that status entries have and the catalog does  *)
(* not gives a minimal record that carries the fields of the last status   *)
(* entry with that ID.                                                     *)
(***************************************************************************)
C20_StatusOnlyRecordOfLastEntry ==
    merge_done =>
        \A i \in 1..Len(StatusEntrySeq(status_in)) :
            LET sl == StatusEntrySeq(status_in)
                e == sl[i]
            IN  (/\ HasId(e)
                 /\ IdOf(e) \notin IdsIn(CatalogEntrySeq(catalog_in))
                 /\ \A j \in (i + 1)..Len(sl) :
                        ~(HasId(sl[j]) /\ IdOf(sl[j]) = IdOf(e)))
                    => /\ IdOf(e) \in DOMAIN merged
                       /\ merged[IdOf(e)] = ExpectedStatusOnly(IdOf(e), e)

C20_Witness ==
    /\ merge_done
    /\ Len(StatusEntrySeq(status_in)) = 2
    /\ IdsIn(StatusEntrySeq(status_in)) = {3}
    /\ 3 \notin IdsIn(CatalogEntrySeq(catalog_in))
    /\ 3 \in DOMAIN merged
    /\ merged[3].bottom_rail_position = PyInt(5)
    /\ merged[3].last_update = PyNone

(***************************************************************************)
(* C14: refreshes are serialized: when a refresh triggered by a            *)
(* notification and a refresh triggered by another caller race, at most    *)
(* one execution of _async_update_data is in progress at any time.         *)
(***************************************************************************)
UpdatesInProgress == {p \in Callers : rpc[p] # "idle"}

C14_Orig_RefreshesSerialized == Cardinality(UpdatesInProgress) <= 1

(***************************************************************************)
(* C15: a published snapshot is never changed in place: every refresh      *)
(* builds a new dict with new records and coordinator.data is replaced by  *)
(* it, so what a reader saw in the dict it took stays what it sees there,  *)
(* and every dict ever published holds the complete result of one merge.   *)
(***************************************************************************)
HeapKept ==
    /\ Len(maps') >= Len(maps)
    /\ SubSeq(maps', 1, Len(maps)) = maps
    /\ Len(recs') >= Len(recs)
    /\ SubSeq(recs', 1, Len(recs)) = recs

IsOneMerge(view) ==
    \E info \in RefreshCatalogs, status \in RefreshStatuses :
        view = Merge(info, status)

C15_SnapshotsNeverMutated ==
    /\ [](held # 0 => Snapshot(recs, maps, held) = held_view)
    /\ [](\A ref \in 1..Len(maps) : IsOneMerge(Snapshot(recs, maps, ref)))
    /\ [][HeapKept]_allVars
    /\ [][coordinator_data' # coordinator_data
            => coordinator_data' = Len(maps) + 1]_allVars

\* the reader holds the dict of an earlier refresh while a later one, with
\* another position for the same device, is published
C15_Witness ==
    /\ held # 0
    /\ coordinator_data # held
    /\ DOMAIN held_view # {}
    /\ DOMAIN Snapshot(recs, maps, coordinator_data) = DOMAIN held_view
    /\ Snapshot(recs, maps, coordinator_data) # held_view

(***************************************************************************)
(* The steps of a refresh, read from where its _async_update_data stands.  *)
(***************************************************************************)
Ends(p) == rpc[p] # "idle" /\ rpc'[p] = "idle"

Fails(p) == Ends(p) /\ result'[p] # "ok"

Succeeds(p) == Ends(p) /\ result'[p] = "ok"

CatalogAnswered(p) == rpc[p] = "catalog" /\ rpc'[p] = "status"

SendsCatalogRequest(p) == rpc[p] # "catalog" /\ rpc'[p] = "catalog"

Published == Snapshot(recs, maps, coordinator_data)

IsIntegerId(p) ==
    LET raw == Get(p, "PeripheralUID", PyNone)
    IN  /\ raw # PyNone
        /\ \/ raw.t = "int"
           \/ raw.t = "str" /\ IntOfChars(raw.s).ok

CleanGroup(group) ==
    IF "PeripheralList" \in DOMAIN group
    THEN [group EXCEPT !["PeripheralList"] = SelectSeq(@, IsIntegerId)]
    ELSE group

CleanRoom(room) ==
    IF "GroupList" \in DOMAIN room
    THEN [room EXCEPT !["GroupList"] =
             [i \in 1..Len(@) |-> CleanGroup(@[i])]]
    ELSE room

CleanCatalog(info) ==
    IF "results" \in DOMAIN info /\ "RoomList" \in DOMAIN info["results"]
    THEN [info EXCEPT !["results"]["RoomList"] =
             [i \in 1..Len(@) |-> CleanRoom(@[i])]]
    ELSE info

CleanStatus(status) ==
    IF "Peripherals" \in DOMAIN status
    THEN [status EXCEPT !["Peripherals"] = SelectSeq(@, IsIntegerId)]
    ELSE status

(***************************************************************************)
(* C21: a catalog peripheral or status entry whose ID is missing or does   *)
(* not parse as an integer is skipped: the merge raises no error and       *)
(* returns what it returns for the answers without those entries.          *)
(***************************************************************************)
C21_Orig_BadIdsAreSkipped ==
    (merge_done \/ merge_error # "none") =>
        /\ merge_error = "none"
        /\ merged = Merge(CleanCatalog(catalog_in), CleanStatus(status_in))

(***************************************************************************)
(* The fields the status overlay writes and the fields the catalog sets.   *)
(***************************************************************************)
StatusFieldsOfEntry(e) ==
    [bottom_rail_position |-> Get(e, "BottomRailPosition", PyNone),
     middle_rail_position |-> Get(e, "MiddleRailPosition", PyNone),
     target_bottom_rail_position |-> Get(e, "TargetBottomRailPosition", PyNone),
     target_middle_rail_position |-> Get(e, "TargetMiddleRailPosition", PyNone),
     battery_level |-> Get(e, "BatteryVoltage", PyNone),
     firmware_version |-> Get(e, "FirmwareVersion", PyNone),
     last_update |-> Get(e, "Timestamp", PyNone)]

StatusFieldsOfRecord(r) ==
    [bottom_rail_position |-> r.bottom_rail_position,
     middle_rail_position |-> r.middle_rail_position,
     target_bottom_rail_position |-> r.target_bottom_rail_position,
     target_middle_rail_position |-> r.target_middle_rail_position,
     battery_level |-> r.battery_level,
     firmware_version |-> r.firmware_version,
     last_update |-> r.last_update]

CatalogFieldsOfRecord(r) ==
    [name |-> r.name, type |-> r.type,
     room_id |-> r.room_id, room_name |-> r.room_name,
     group_id |-> r.group_id, group_name |-> r.group_name,
     module_type |-> r.module_type, module_detail |-> r.module_detail]

\* the records as the catalog alone sets them
CatalogAlone == Merge(catalog_in, EmptyDict)

\* the entry is the last one of the status list with its ID
IsLastWithItsId(i) ==
    LET entries == StatusEntrySeq(status_in)
    IN  \A j \in (i + 1)..Len(entries) :
            ~(HasId(entries[j]) /\ IdOf(entries[j]) = IdOf(entries[i]))

\* the record of the entry's device has the entry's status fields and the
\* catalog's other fields
OverlaidBy(e) ==
    /\ IdOf(e) \in DOMAIN merged
    /\ StatusFieldsOfRecord(merged[IdOf(e)]) = StatusFieldsOfEntry(e)
    /\ IdOf(e) \in DOMAIN CatalogAlone
          => CatalogFieldsOfRecord(merged[IdOf(e)])
                = CatalogFieldsOfRecord(CatalogAlone[IdOf(e)])

(***************************************************************************)
(* C22 as stated: for every status entry with a parseable ID, the status   *)
(* fields of the record are exactly the entry's (absent when null or       *)
(* missing) and the other fields are as the catalog set them.              *)
(***************************************************************************)
C22_Orig_EveryEntryReplacesTheFields ==
    merge_done =>
        \A i \in 1..Len(StatusEntrySeq(status_in)) :
            HasId(StatusEntrySeq(status_in)[i])
                => OverlaidBy(StatusEntrySeq(status_in)[i])

(***************************************************************************)
(* C22: for every status entry that is the last one with its parseable ID, *)
(* the status fields of the record are exactly the entry's (absent when    *)
(* null or missing, whatever an earlier entry with that ID gave) and the   *)
(* other fields are as the catalog set them.                               *)
(***************************************************************************)
C22_LastEntryReplacesTheFields ==
    merge_done =>
        \A i \in 1..Len(StatusEntrySeq(status_in)) :
            (HasId(StatusEntrySeq(status_in)[i]) /\ IsLastWithItsId(i))
                => OverlaidBy(StatusEntrySeq(status_in)[i])

\* device 1 is in the catalog with a name; the first status entry gives it
\* a bottom position, the second a null one
C22_Witness ==
    /\ merge_done
    /\ 1 \in DOMAIN CatalogAlone
    /\ Len(StatusEntrySeq(status_in)) = 2
    /\ \A i \in 1..2 : /\ HasId(StatusEntrySeq(status_in)[i])
                       /\ IdOf(StatusEntrySeq(status_in)[i]) = 1
    /\ Get(StatusEntrySeq(status_in)[1], "BottomRailPosition", PyNone)
          = PyInt(40)
    /\ merged[1].bottom_rail_position = PyNone
    /\ merged[1].middle_rail_position = PyInt(60)
    /\ merged[1].name = PyStr(<<"B">>)

ChunkInHand == gen = "waiting" /\ read_task = "done" /\ chunk # <<>>

C25_Orig_NoCompletedChunkLost ==
    [][(ChunkInHand /\ cancel' = cancel)
          => gen' \notin {"cleanup", "closed"}]_allVars

(***************************************************************************)
(* C26: whenever the framer is between two characters (the generator is    *)
(* not suspended at a yield, where the buffer still holds the object being *)
(* delivered), the brace depth is not negative and the buffer is empty     *)
(* when the depth is 0.                                                    *)
(***************************************************************************)
C26_Orig_DepthNeverNegative ==
    gen \in {"waiting", "framing"} =>
        /\ depth >= 0
        /\ depth = 0 => buffer = <<>>

(***************************************************************************)
(* C27: the buffer is empty and the depth is 0 when a session starts, and  *)
(* the text of every object a session yields is text this session was fed: *)
(* nothing left in the framer by an earlier session is part of it.         *)
(***************************************************************************)
C27_FramerStartsEmpty ==
    /\ [][(gen = "connecting" /\ gen' = "waiting")
            => (buffer' = <<>> /\ depth' = 0)]_allVars
    /\ [](\A i \in 1..Len(yielded) :
            /\ Len(yielded[i].text) <= yielded[i].n
            /\ yielded[i].text =
                 SubSeq(fed, yielded[i].n - Len(yielded[i].text) + 1,
                        yielded[i].n))

\* the first session ended inside the object; the second one is fed the
\* rest of it, down to its closing brace, and yields nothing
C27_Witness ==
    /\ pieces = <<NotificationText>>
    /\ sessions = 2
    /\ gen = "waiting"
    /\ rd = Len(stream)
    /\ fed # <<>>
    /\ fed[Len(fed)] = "}"
    /\ Len(fed) < Len(Decode(stream))
    /\ yielded = <<>>

(***************************************************************************)
(* C28: after a session ended by the end of the stream the loop does, in   *)
(* this order, one sleep of the reconnect interval, which completes, one   *)
(* refresh, and only then the next connection attempt; it never connects   *)
(* right away.                                                             *)
(***************************************************************************)
C28_EndOfStreamBacksOff ==
    lastEnd = "EOF" =>
        /\ events # <<>>
        /\ events[1] = "sleep"
        /\ \A i \in DOMAIN events :
              i <= 4 => events[i] = <<"sleep", "wake", "refresh", "connect">>[i]
        /\ pc = "sleep" => events = <<"sleep">>
        /\ pc = "refresh_reconnect" => events = <<"sleep", "wake", "refresh">>
        /\ pc = "connect" => events = <<"sleep", "wake", "refresh">>

C28_Witness ==
    /\ lastEnd = "EOF"
    /\ sessions = 2
    /\ gen = "connecting"
    /\ events = <<"sleep", "wake", "refresh", "connect">>
    /\ cancel = "none"

(***************************************************************************)
(* The config flow (async_step_user) and the entry setup                   *)
(* (async_setup_entry, async_unload_entry).  Each makes its own            *)
(* NormanApiClient; async_step_user is suspended at the validation and     *)
(* again in its finally clause, async_setup_entry at the validation and at *)
(* the first refresh.  flow.caught and flow.submissions record what the    *)
(* validation of the running call raised and how many inputs this flow     *)
(* was given.                                                              *)
(***************************************************************************)
MaxClients == 4

\* the hosts a user types
Hosts == {"hub1", "hub2"}

\* how the registration request of a validation fails: as a refresh's
\* request does, or by the request's timeout
ValidationFailures == Failures \cup {"TimeoutError"}

\* what async_validate_connection raises; "ok" when it returns True
ValidateConnection(failure) ==
    IF failure \in Failures THEN ApiError(failure) ELSE failure

\* NormanApiClient(host): a new client with an open session
NormanApiClient(owner) == [owner |-> owner, closed |-> FALSE]

\* every except clause reports cannot_connect
BaseErrorCannotConnect(e) == "cannot_connect"

\* the except clauses of async_step_user
BaseError(e) ==
    CASE e = "NormanConnectionError" -> "cannot_connect"
      [] e = "NormanApiError" -> "invalid_response"
      [] OTHER -> "unknown"

\* self.async_show_form(step_id="user", ..., errors=errors)
ShowForm(errors) == [type |-> "form", step_id |-> "user", errors |-> errors]

\* self.async_create_entry(title=f"Norman Hub ({host})", data=user_input)
CreateEntry(host, user_input) ==
    [type |-> "create_entry", title |-> <<"Norman Hub (", host, ")">>,
     data |-> user_input]

\* await api.async_close() on the client at place i
Close(cs, i) == [cs EXCEPT ![i].closed = TRUE]

\* a flow is started: async_step_user without input shows the empty form
FlowInit ==
    /\ flow.pc \in {"none", "created", "aborted"}
    /\ flow' = [pc |-> "form", result |-> ShowForm(EmptyDict),
                errors |-> EmptyDict, user_input |-> EmptyDict, api |-> 0,
                pending |-> NoResult, caught |-> "none", submissions |-> 0]
    /\ UNCHANGED <<vars, refreshVars, mergeVars, coverVars, clients,
                   config_entries, setup>>

\* async_step_user with input, up to the validation it awaits; a host
\* that has an entry aborts the flow before a client is made
StepUserSubmit(host) ==
    /\ flow.pc = "form"
    /\ IF host \in config_entries
       THEN /\ flow' = [flow EXCEPT
                    !.pc = "aborted",
                    !.result = [type |-> "abort",
                                reason |-> "already_configured"],
                    !.errors = EmptyDict,
                    !.user_input = [host |-> host],
                    !.pending = NoResult,
                    !.caught = "none",
                    !.submissions = @ + 1]
            /\ UNCHANGED clients
       ELSE /\ Len(clients) < MaxClients
            /\ clients' = Append(clients, NormanApiClient("flow"))
            /\ flow' = [flow EXCEPT
                    !.pc = "validate",
                    !.errors = EmptyDict,
                    !.user_input = [host |-> host],
                    !.api = Len(clients) + 1,
                    !.pending = NoResult,
                    !.caught = "none",
                    !.submissions = @ + 1]
    /\ UNCHANGED <<vars, refreshVars, mergeVars, coverVars, config_entries,
                   setup>>

\* the validation ends: the return value is computed or the except
\* clause sets errors["base"]; the finally clause awaits async_close
StepUserValidated(failure) ==
    /\ flow.pc = "validate"
    /\ LET e == ValidateConnection(failure)
       IN  flow' = IF e = "ok"
                   THEN [flow EXCEPT
                            !.pc = "finally",
                            !.pending = CreateEntry(flow.user_input.host,
                                                    flow.user_input)]
                   ELSE [flow EXCEPT
                            !.pc = "finally",
                            !.caught = e,
                            !.errors = [base |-> BaseError(e)]]
    /\ UNCHANGED <<vars, refreshVars, mergeVars, coverVars, clients,
                   config_entries, setup>>

\* async_close returns and async_step_user returns: the entry, or the
\* form with the errors
StepUserReturns ==
    /\ flow.pc = "finally"
    /\ clients' = Close(clients, flow.api)
    /\ IF flow.pending # NoResult
       THEN /\ flow' = [flow EXCEPT !.pc = "created", !.result = flow.pending]
            /\ config_entries' = config_entries \cup {flow.user_input.host}
       ELSE /\ flow' = [flow EXCEPT !.pc = "form",
                                    !.result = ShowForm(flow.errors)]
            /\ UNCHANGED config_entries
    /\ UNCHANGED <<vars, refreshVars, mergeVars, coverVars, setup>>

\* async_setup_entry up to the validation it awaits; it is called for a
\* new entry and again after it raised
SetupEntry(host) ==
    /\ setup.pc \in {"idle", "raised"}
    /\ host \in config_entries
    /\ Len(clients) < MaxClients
    /\ clients' = Append(clients, NormanApiClient("setup"))
    /\ setup' = [pc |-> "validate", host |-> host, api |-> Len(clients) + 1,
                 raised |-> "none"]
    /\ UNCHANGED <<vars, refreshVars, mergeVars, coverVars, config_entries,
                   flow>>

\* the validation of the setup ends: only NormanConnectionError is caught
SetupValidated(failure) ==
    /\ setup.pc = "validate"
    /\ LET e == ValidateConnection(failure)
       IN  CASE e = "ok" ->
                  /\ setup' = [setup EXCEPT !.pc = "first_refresh"]
                  /\ UNCHANGED clients
             [] e = "NormanConnectionError" ->
                  /\ clients' = Close(clients, setup.api)
                  /\ setup' = [setup EXCEPT !.pc = "raised",
                                            !.raised = "ConfigEntryNotReady"]
             [] OTHER ->
                  /\ setup' = [setup EXCEPT !.pc = "raised", !.raised = e]
                  /\ UNCHANGED clients
    /\ UNCHANGED <<vars, refreshVars, mergeVars, coverVars, config_entries,
                   flow>>

\* await coordinator.async_config_entry_first_refresh(): it returns, or
\* raises ConfigEntryNotReady out of async_setup_entry
SetupFirstRefresh(failure) ==
    /\ setup.pc = "first_refresh"
    /\ setup' = IF failure = "ok"
                THEN [setup EXCEPT !.pc = "running"]
                ELSE [setup EXCEPT !.pc = "raised",
                                   !.raised = "ConfigEntryNotReady"]
    /\ UNCHANGED <<vars, refreshVars, mergeVars, coverVars, clients,
                   config_entries, flow>>

\* async_unload_entry of the running entry
UnloadEntry ==
    /\ setup.pc = "running"
    /\ clients' = Close(clients, setup.api)
    /\ setup' = [setup EXCEPT !.pc = "idle"]
    /\ UNCHANGED <<vars, refreshVars, mergeVars, coverVars, config_entries,
                   flow>>

EntryInit ==
    /\ ListenerStart(<<>>)
    /\ RefreshIdle
    /\ MergeIdle
    /\ EntryIdle
    /\ CoverIdle

EntryNext ==
    \/ FlowInit
    \/ \E host \in Hosts : StepUserSubmit(host)
    \/ \E failure \in {"ok"} \cup ValidationFailures :
            StepUserValidated(failure)
    \/ StepUserReturns
    \/ \E host \in Hosts : SetupEntry(host)
    \/ \E failure \in {"ok"} \cup ValidationFailures : SetupValidated(failure)
    \/ \E failure \in {"ok"} \cup Failures : SetupFirstRefresh(failure)
    \/ UnloadEntry

EntrySpec == EntryInit /\ [][EntryNext]_allVars

\* the place of a client in clients is the object; a call that is
\* running holds the client it made
EntryTypeOK ==
    /\ \A i \in 1..Len(clients) :
            clients[i].owner \in {"flow", "setup"}
            /\ clients[i].closed \in BOOLEAN
    /\ Len(clients) <= MaxClients
    /\ config_entries \subseteq Hosts
    /\ flow.pc \in {"none", "form", "validate", "finally", "created",
                    "aborted"}
    /\ setup.pc \in {"idle", "validate", "first_refresh", "running",
                     "raised"}
    /\ flow.pc \in {"validate", "finally"} =>
            flow.api \in 1..Len(clients) /\ clients[flow.api].owner = "flow"
    /\ setup.pc # "idle" =>
            setup.api \in 1..Len(clients)
            /\ clients[setup.api].owner = "setup"

(***************************************************************************)
(* C23: when the validation of a user step raised, the step returns the    *)
(* "user" form with exactly the one error "base" (cannot_connect for a     *)
(* connection error, invalid_response for an API error, unknown for any    *)
(* other exception) and no entry is created by it; the form returned for   *)
(* a submission shows only that submission's error; a submission whose     *)
(* validation succeeded returns the created entry with the submitted data. *)
(***************************************************************************)
C23_ExpectedError(e) ==
    IF e = "NormanConnectionError" THEN "cannot_connect"
    ELSE IF e = "NormanApiError" THEN "invalid_response"
    ELSE "unknown"

C23_FailedStepShowsItsError ==
    /\ [][(flow.pc = "finally" /\ flow'.pc # "finally")
            => IF flow.caught # "none"
               THEN /\ flow'.pc = "form"
                    /\ flow'.result.type = "form"
                    /\ flow'.result.step_id = "user"
                    /\ DOMAIN flow'.result.errors = {"base"}
                    /\ flow'.result.errors["base"] =
                            C23_ExpectedError(flow.caught)
                    /\ config_entries' = config_entries
               ELSE /\ flow'.pc = "created"
                    /\ flow'.result.type = "create_entry"
                    /\ flow'.result.data = flow.user_input
                    /\ flow'.result.title =
                            <<"Norman Hub (", flow.user_input.host, ")">>
                    /\ config_entries' =
                            config_entries \cup {flow.user_input.host}]_allVars
    /\ [][(flow.pc = "form" /\ flow'.pc = "validate")
            => flow'.errors = EmptyDict /\ flow'.caught = "none"]_allVars

\* an entry was created by the third input of a flow: the two before
\* failed their validation
C23_Witness ==
    /\ flow.pc = "created"
    /\ flow.submissions = 3
    /\ flow.result.type = "create_entry"

(***************************************************************************)
(* C30: a client made by a config-flow step is closed when the step has    *)
(* returned, and a client made by an entry setup that raised is closed     *)
(* when the setup has raised.                                              *)
(***************************************************************************)
C30_Orig_ClientsClosedOnFailure ==
    /\ \A i \in 1..Len(clients) :
            (clients[i].owner = "flow"
             /\ ~(flow.pc \in {"validate", "finally"} /\ flow.api = i))
                => clients[i].closed
    /\ setup.pc = "raised" => clients[setup.api].closed

(***************************************************************************)
(* One cover entity (NormanBlind) of device 1.  Its commands pass through  *)
(* _async_set_position, which keeps the last value of each rail in         *)
(* _attr_extra_state_attributes; reading the entity's state attributes     *)
(* writes the hub's reported targets into the same dict.  A command that   *)
(* the hub accepted ends with async_request_refresh.  Each element of sent *)
(* also records which command made the call.                               *)
(***************************************************************************)
MaxCommands == 2

ATTR_TARGET_POSITION == "target_position"

ATTR_TARGET_TILT == "target_tilt"

\* the positions a user asks for
Positions == {40}

\* the steps of the nudge_position service
Steps == {-100, 100}

\* the target values the hub reports for a rail
HubTargets == {PyNone, PyInt(70)}

\* the status entries of the hub for the device
CoverStatusEntries ==
    {[PeripheralUID |-> PyInt(1), TargetBottomRailPosition |-> b,
      TargetMiddleRailPosition |-> mid] : b \in HubTargets, mid \in HubTargets}

\* what a refresh publishes for the device: its record with a status
\* entry laid over it, or nothing when no answer names the device
CoverDevices ==
    {StatusOverlay(MinimalRecord(1), e) : e \in CoverStatusEntries}

\* getattr(data, name, None) for the two target fields
TargetOf(data, name) == IF data = PyNone THEN PyNone ELSE data[name]

\* d[key] = value
SetItem(d, key, value) ==
    [k \in DOMAIN d \cup {key} |-> IF k = key THEN value ELSE d[k]]

\* NormanBlind.extra_state_attributes: both targets are taken from the
\* coordinator's data
ExtraStateAttributes(a, data) ==
    SetItem(SetItem(a, ATTR_TARGET_POSITION,
                    TargetOf(data, "target_bottom_rail_position")),
            ATTR_TARGET_TILT, TargetOf(data, "target_middle_rail_position"))

\* _async_set_position up to the API call: the values it sends and the
\* dict it leaves; an argument that is None takes the dict's value
SetPositionValues(a, bottom, middle) ==
    LET a1 == IF bottom = PyNone THEN a
              ELSE SetItem(a, ATTR_TARGET_POSITION, bottom)
        a2 == IF middle = PyNone THEN a1
              ELSE SetItem(a1, ATTR_TARGET_TILT, middle)
    IN  [bottom_val |-> IF bottom = PyNone
                        THEN Get(a, ATTR_TARGET_POSITION, PyInt(100))
                        ELSE bottom,
         middle_val |-> IF middle = PyNone
                        THEN Get(a1, ATTR_TARGET_TILT, PyInt(100))
                        ELSE middle,
         attrs |-> a2]

\* "x or 0" for None and int
OrZero(x) == IF x = PyNone THEN 0 ELSE x.n

\* max(0, min(100, n))
Clamp(n) == IF n < 0 THEN 0 ELSE IF n > 100 THEN 100 ELSE n

\* _async_set_position: the call of api.async_set_position and, when the
\* hub accepted it, the refresh it requests, which publishes data or not;
\* when the call raised, no refresh is requested
AsyncSetPosition(command, bottom, middle, failure, data) ==
    /\ Len(sent) < MaxCommands
    /\ LET v == SetPositionValues(attrs, bottom, middle)
       IN  /\ attrs' = v.attrs
           /\ sent' = Append(sent, [command |-> command,
                                    bottom |-> v.bottom_val,
                                    middle |-> v.middle_val])
    /\ failure # "ok" => data = cover_device
    /\ cover_device' = data
    /\ cover_error' = IF failure = "ok" THEN "none" ELSE "HomeAssistantError"
    /\ UNCHANGED <<vars, refreshVars, mergeVars, entryVars>>

\* async_close_cover
CloseCover(failure, data) ==
    AsyncSetPosition("position", PyInt(0), PyNone, failure, data)

\* async_open_cover
OpenCover(failure, data) ==
    AsyncSetPosition("position", PyInt(100), PyNone, failure, data)

\* async_set_cover_position
SetCoverPosition(position, failure, data) ==
    AsyncSetPosition("position", PyInt(position), PyNone, failure, data)

\* async_open_cover_tilt
OpenCoverTilt(failure, data) ==
    AsyncSetPosition("tilt", PyNone, PyInt(100), failure, data)

\* async_close_cover_tilt
CloseCoverTilt(failure, data) ==
    AsyncSetPosition("tilt", PyNone, PyInt(0), failure, data)

\* async_set_cover_tilt_position
SetCoverTiltPosition(tilt_position, failure, data) ==
    AsyncSetPosition("tilt", PyNone, PyInt(tilt_position), failure, data)

\* async_nudge_position: KeyError when the dict has no target position
NudgePosition(step, failure, data) ==
    IF ATTR_TARGET_POSITION \in DOMAIN attrs
    THEN SetCoverPosition(Clamp(OrZero(attrs[ATTR_TARGET_POSITION]) + step),
                          failure, data)
    ELSE /\ cover_error' = "KeyError"
         /\ cover_error # "KeyError"
         /\ UNCHANGED <<vars, refreshVars, mergeVars, entryVars, attrs,
                        cover_device, sent>>

\* the entity's state is written: its state attributes are read
ReadExtraStateAttributes ==
    /\ attrs' = ExtraStateAttributes(attrs, cover_device)
    /\ attrs' # attrs
    /\ UNCHANGED <<vars, refreshVars, mergeVars, entryVars, cover_device,
                   sent, cover_error>>

\* a refresh of the listener publishes data
CoverRefresh(data) ==
    /\ cover_device' = data
    /\ cover_device' # cover_device
    /\ UNCHANGED <<vars, refreshVars, mergeVars, entryVars, attrs, sent,
                   cover_error>>

\* the entity as cover.async_setup_entry makes it from the published data
CoverInit ==
    /\ ListenerStart(<<>>)
    /\ RefreshIdle
    /\ MergeIdle
    /\ EntryIdle
    /\ attrs = EmptyDict
    /\ cover_device \in CoverDevices
    /\ sent = <<>>
    /\ cover_error = "none"

\* how the API call of a command ends
CoverOutcomes == {"ok"} \cup Failures

\* what the coordinator can hold for the device
CoverData == CoverDevices \cup {PyNone}

CoverNext ==
    \/ \E failure \in CoverOutcomes, data \in CoverData :
            CloseCover(failure, data)
    \/ \E failure \in CoverOutcomes, data \in CoverData :
            OpenCover(failure, data)
    \/ \E p \in Positions, failure \in CoverOutcomes, data \in CoverData :
            SetCoverPosition(p, failure, data)
    \/ \E failure \in CoverOutcomes, data \in CoverData :
            OpenCoverTilt(failure, data)
    \/ \E failure \in CoverOutcomes, data \in CoverData :
            CloseCoverTilt(failure, data)
    \/ \E t \in Positions, failure \in CoverOutcomes, data \in CoverData :
            SetCoverTiltPosition(t, failure, data)
    \/ \E step \in Steps, failure \in CoverOutcomes, data \in CoverData :
            NudgePosition(step, failure, data)
    \/ ReadExtraStateAttributes
    \/ \E data \in CoverData : CoverRefresh(data)

CoverSpec == CoverInit /\ [][CoverNext]_allVars

\* the dict has only the two target keys
CoverTypeOK ==
    /\ DOMAIN attrs \subseteq {ATTR_TARGET_POSITION, ATTR_TARGET_TILT}
    /\ Len(sent) <= MaxCommands
    /\ cover_device \in CoverData
    /\ cover_error \in {"none", "HomeAssistantError", "KeyError"}

(***************************************************************************)
(* C29: a command for one rail sends the last value commanded for the      *)
(* other rail: the first open, close or set-position command after a tilt  *)
(* command with value t sends middle rail = t, the first tilt command      *)
(* after a position command with value p sends bottom rail = p, whatever   *)
(* reads of the state attributes and refreshes happened in between; every  *)
(* value sent is an integer in 0..100.  (Stated for two commands with no   *)
(* other command between them.)                                            *)
(***************************************************************************)
C29_IsPercent(v) == v.t = "int" /\ v.n \in 0..100

C29_Orig_OtherRailPreserved ==
    /\ \A i, j \in 1..Len(sent) :
            (j = i + 1 /\ sent[i].command # sent[j].command)
                => IF sent[i].command = "tilt"
                   THEN sent[j].middle = sent[i].middle
                   ELSE sent[j].bottom = sent[i].bottom
    /\ \A j \in 1..Len(sent) :
            C29_IsPercent(sent[j].bottom) /\ C29_IsPercent(sent[j].middle)

====
